---- MODULE Spec2Model ----
(***************************************************************************)
(* Query service protocol of a vttablet.                                   *)
(*                                                                         *)
(* Two state machines share this module:                                   *)
(*   SpecTx  the Session/Transaction Manager (Begin, Commit, Rollback,     *)
(*           Execute over sessions and transaction ids).  The manager      *)
(*           lives in go/vt/tabletserver, which is not part of the         *)
(*           sources at hand; it is written from spec.md section 4.1.      *)
(*   Spec    the conformance harness of tabletconntest.go: the             *)
(*           FakeQueryService, the TestSuite driver and the streaming      *)
(*           producer/consumer pair.                                       *)
(***************************************************************************)
EXTENDS Integers, Sequences, FiniteSets, TLC

\* ------------------------------------------------------------------ bounds
MaxSessions == 2
MaxTx == 2
MaxBatch == 2     \* queries in one ExecuteBatch
MaxSplit == 3     \* largest split_count asked of SplitQuery
KeySpace == 5     \* keys of the table SplitQuery partitions: 0..KeySpace-1

\* --------------------------------------------------------------- variables
VARIABLES
    sessions,     \* session ids handed out by GetSessionId
    nextTxId,     \* next unused transaction id
    txState,      \* transaction id -> "NONE" | "OPEN" | "CLOSED"
    txSession,    \* transaction id -> session recorded at Begin (0: none)
    txUsed,       \* transaction id -> an Execute has succeeded in it
    begun,        \* history: ids returned by successful Begin calls, in order
    lastCall      \* the manager call made by the last step and its outcome

txVars == <<sessions, nextTxId, txState, txSession, txUsed, begun, lastCall>>

VARIABLES
    fake,         \* FakeQueryService: hasError, panics, streamExecutePanicsEarly
    panicWait,    \* global: the channel instance currently held
    errorWait,    \* global: the channel instance currently held
    nextChan,     \* next channel instance make() returns
    chanClosed,   \* channel instances that have been closed
    doubleClose,  \* a closed channel was closed again (the closer panics)
    connSession,  \* session id the connection learnt from GetSessionId
    transport,    \* which of the behaviours the suite tolerates this transport has
    RPCErrorOnlyInReply, \* tabletserver flag read by the Commit/Rollback error tests
    fresh,        \* no TestSuite has run on this fake server yet
    runs,         \* TestSuite runs started so far
    suiteIdx,     \* position in TestSuite (0: not running)
    cliPc,        \* position inside the running streaming test
    failed,       \* t.Errorf or t.Fatalf has been called
    aborted,      \* t.Fatalf has stopped the test goroutine
    lastRpc,      \* the unary call the last test made, as the client saw it
    faults,       \* calls that ended in a caught panic so far
    srvPc,        \* position of the goroutine serving StreamExecute
    srvWaitOn,    \* channel instance that goroutine is blocked on
    srvPanicked,  \* that goroutine panicked
    sent,         \* chunks that goroutine passed to sendReply, in order
    stream,       \* chunks in flight to the consumer
    recv,         \* chunks the consumer received, in order
    streamClosed, \* the stream has been closed by the producer side
    closeCount,   \* times the stream of the current call has been closed
    srvErr,       \* the result cell behind the terminal-error accessor
    callErr,      \* error returned by the StreamExecute call itself
    termRead,     \* the consumer has called the terminal-error accessor
    termErr,      \* what the terminal-error accessor returned
    sawClose      \* the consumer's receive reported the stream closed

fakeVars == <<fake, panicWait, errorWait, nextChan, chanClosed, doubleClose,
              connSession, transport, RPCErrorOnlyInReply, fresh, runs, suiteIdx, cliPc, failed,
              aborted, lastRpc, faults>>
streamVars == <<srvPc, srvWaitOn, srvPanicked, sent, stream, recv, streamClosed,
                closeCount, srvErr, callErr, termRead, termErr, sawClose>>

VARIABLES
    abandoned,    \* "no", "yes": the consumer gave the stream up, "observed":
                  \* a send of the producer has failed for it
    cursor,       \* engine-side resources of the streaming call: "none",
                  \* "open", "released"
    plan,         \* what the engine will do for the call: rows chunks it has,
                  \* chunk at which it fails (0: none)
    calls         \* StreamExecute calls the executor has been given

execVars == <<abandoned, cursor, plan, calls>>

harnessVars == <<fakeVars, streamVars, execVars>>

VARIABLES
    pending       \* session -> the call the session has in flight: where it
                  \* is ("idle", "called", "applied"), the method, the
                  \* transaction it names and the id a Begin was given

concVars == <<pending>>

VARIABLES
    numTests,     \* test.go: len(tests), the tests main is to run
    retry,        \* the value of the -retry flag (*retryMax)
    mainAt,       \* main: "off", "select" (lines 330-341), "waitDone" (line
                  \* 335), "exited"
    loopAt,       \* the test loop goroutine: "off", "check" (the select of
                  \* lines 282-287), "run" (inside test.run), "done"
    testIdx,      \* position of the range over tests (1-based)
    try,          \* the try counter of the inner loop
    nPassed,      \* stats: the counters passed, flaky and failed of main
    nFlaky,
    nFailed,
    stop,         \* the stop channel has been closed
    done,         \* the done channel of main has been closed
    exitStatus,   \* -1 while the process lives, then its exit status
    cmd,          \* test -> try whose command t.cmd holds (0: nil)
    proc,         \* <<test, try>> -> "none" (Process nil), "running",
                  \* "exited" (waited for)
    runErr,       \* err of the CombinedOutput of the try in hand: "none"
                  \* (not back yet), "nil", "err"
    runDone,      \* <<test, try>> whose done channel (line 139) is closed
    timer,        \* <<test, try>> -> what its watchdog has before it in
                  \* timer.C: "armed", "fired", "stopped"; "none" when no
                  \* watchdog waits on it
    watchdog,     \* <<test, try>> -> "none", "waiting", "exited"
    term,         \* <<test, try>> -> who delivered SIGTERM to its process
    outcomes,     \* history: test -> the err of its tries, in order
    tally,        \* history: test -> the stats it was counted in, in order
    atSignal      \* history: <<test, try>> whose process was running when
                  \* the signal arrived

runnerVars == <<numTests, retry, mainAt, loopAt, testIdx, try, nPassed, nFlaky,
                nFailed, stop, done, exitStatus, cmd, proc, runErr, runDone,
                timer, watchdog, term, outcomes, tally, atSignal>>

\* What the manager leaves alone when its calls come one at a time, as do
\* the harness and the executors.
sideVars == <<concVars, runnerVars>>

SessionIds == 1..MaxSessions
TxIds == 1..MaxTx

NoCall ==
    [op |-> "none", session |-> 0, tx |-> 0, result |-> "none", value |-> 0,
     args |-> <<>>, work |-> <<>>]

\* A call, its outcome, the arguments it carried besides the session and
\* the transaction, and the statements it issued to the SQL engine.
CallWork(op, s, t, result, value, args, work) ==
    [op |-> op, session |-> s, tx |-> t, result |-> result, value |-> value,
     args |-> args, work |-> work]

Call(op, s, t, result, value) == CallWork(op, s, t, result, value, <<>>, <<>>)

InitTx ==
    /\ sessions = {}
    /\ nextTxId = 1
    /\ txState = [t \in TxIds |-> "NONE"]
    /\ txSession = [t \in TxIds |-> 0]
    /\ txUsed = [t \in TxIds |-> FALSE]
    /\ begun = <<>>
    /\ lastCall = NoCall

\* --------------------------------------------- Session/Transaction Manager

\* GetSessionId(keyspace, shard) -> session_id
GetSessionId ==
    /\ Cardinality(sessions) < MaxSessions
    /\ LET s == Cardinality(sessions) + 1 IN
        /\ sessions' = sessions \cup {s}
        /\ lastCall' = Call("GetSessionId", s, 0, "OK", s)
    /\ UNCHANGED <<nextTxId, txState, txSession, txUsed, begun>>
    /\ UNCHANGED <<harnessVars, sideVars>>

\* The id a Begin hands out: always the next unused one.
AllocTxIdReuse(next, state) ==
    IF \E t \in TxIds : state[t] = "CLOSED"
    THEN CHOOSE t \in TxIds : state[t] = "CLOSED"
    ELSE next

AllocTxId(next, state) == next

\* What a Begin does to the table of transactions.
BeginOnTable(s) ==
    /\ IF s \notin sessions
       THEN /\ lastCall' = Call("Begin", s, 0, "InvalidSession", 0)
            /\ UNCHANGED <<sessions, nextTxId, txState, txSession, txUsed, begun>>
       ELSE LET t == AllocTxId(nextTxId, txState) IN
            /\ nextTxId <= MaxTx
            /\ txState' = [txState EXCEPT ![t] = "OPEN"]
            /\ txSession' = [txSession EXCEPT ![t] = s]
            /\ txUsed' = [txUsed EXCEPT ![t] = FALSE]
            /\ nextTxId' = IF t = nextTxId THEN nextTxId + 1 ELSE nextTxId
            /\ begun' = Append(begun, t)
            /\ lastCall' = Call("Begin", s, 0, "OK", t)
            /\ UNCHANGED sessions

\* Begin(session_id) -> transaction_id
Begin(s) == BeginOnTable(s) /\ UNCHANGED <<harnessVars, sideVars>>

\* A Begin that takes no notice of the transaction the session carries.
BeginNestedAllocates(s, t) ==
    /\ s \in sessions
    /\ nextTxId <= MaxTx
    /\ txState' = [txState EXCEPT ![nextTxId] = "OPEN"]
    /\ txSession' = [txSession EXCEPT ![nextTxId] = s]
    /\ nextTxId' = nextTxId + 1
    /\ begun' = Append(begun, nextTxId)
    /\ lastCall' = Call("Begin", s, t, "OK", nextTxId)
    /\ UNCHANGED <<sessions, txUsed>>
    /\ UNCHANGED <<harnessVars, sideVars>>

\* Begin on a session that already carries the nonzero transaction_id t:
\* begin never nests, the call is refused and nothing is allocated.
BeginNested(s, t) ==
    /\ lastCall' = Call("Begin", s, t,
                        IF s \notin sessions THEN "InvalidSession" ELSE "Misuse", 0)
    /\ UNCHANGED <<sessions, nextTxId, txState, txSession, txUsed, begun>>
    /\ UNCHANGED <<harnessVars, sideVars>>

\* The check Commit, Rollback and Execute make on (session_id, transaction_id).
CheckTxSessionFirst(s, t, state, owner) ==
    IF t \in TxIds /\ state[t] # "NONE" /\ owner[t] # s THEN "SessionMismatch"
    ELSE IF t \notin TxIds \/ state[t] # "OPEN" THEN "NotInTransaction"
    ELSE "OK"

CheckTxNoSession(s, t, state, owner) ==
    IF t \notin TxIds \/ state[t] # "OPEN" THEN "NotInTransaction" ELSE "OK"

CheckTxNoClosed(s, t, state, owner) ==
    IF t \notin TxIds \/ state[t] = "NONE" THEN "NotInTransaction"
    ELSE IF owner[t] # s THEN "SessionMismatch"
    ELSE "OK"

CheckTx(s, t, state, owner) ==
    IF t \notin TxIds \/ state[t] # "OPEN" THEN "NotInTransaction"
    ELSE IF owner[t] # s THEN "SessionMismatch"
    ELSE "OK"

\* Commit and Rollback make the same transition; op names the call.
TerminateOnTable(op, s, t) ==
    LET r == CheckTx(s, t, txState, txSession) IN
    /\ lastCall' = Call(op, s, t, r, 0)
    /\ txState' = IF r = "OK" THEN [txState EXCEPT ![t] = "CLOSED"] ELSE txState
    /\ UNCHANGED <<sessions, nextTxId, txSession, txUsed, begun>>

Terminate(op, s, t) == TerminateOnTable(op, s, t) /\ UNCHANGED <<harnessVars, sideVars>>

\* Commit(session_id, transaction_id)
Commit(s, t) == Terminate("Commit", s, t)

\* Rollback(session_id, transaction_id)
Rollback(s, t) == Terminate("Rollback", s, t)

\* ------------------------------------------------------------ Query Executor
\* The bound queries callers send.
BoundQueries ==
    {[Sql |-> "select", BindVariables |-> [id |-> 1]],
     [Sql |-> "update", BindVariables |-> [id |-> 2]]}

RECURSIVE SeqsUpTo(_, _)
SeqsUpTo(S, n) ==
    IF n = 0 THEN {<<>>}
    ELSE LET shorter == SeqsUpTo(S, n - 1) IN
         shorter \cup {Append(b, x) : b \in shorter, x \in S}

Batches == SeqsUpTo(BoundQueries, MaxBatch)

\* A statement as the SQL engine is handed it, with whether the engine
\* executed it or reported a failure, and the result the engine produces
\* for it.
Statement(s, t, q, ok) == [session |-> s, tx |-> t, query |-> q, ok |-> ok]

EngineResult(q) == [of |-> q.Sql, bind |-> q.BindVariables]

\* An Execute that hands the engine the statement again when the engine
\* reported a failure, and returns what the second attempt gave.
ExecuteRetries(s, t) ==
    \E q \in BoundQueries, fails \in BOOLEAN :
        LET r == IF t = 0 THEN "OK" ELSE CheckTx(s, t, txState, txSession)
            work == IF r # "OK" THEN <<>>
                    ELSE IF fails
                    THEN <<Statement(s, t, q, FALSE), Statement(s, t, q, TRUE)>>
                    ELSE <<Statement(s, t, q, TRUE)>>
        IN /\ r # "OK" => ~fails
           /\ lastCall' = CallWork("Execute", s, t, r,
                                   IF r = "OK" THEN EngineResult(q) ELSE 0, q, work)
           /\ txUsed' = IF r = "OK" /\ t # 0
                        THEN [txUsed EXCEPT ![t] = TRUE] ELSE txUsed
           /\ UNCHANGED <<sessions, nextTxId, txState, txSession, begun>>
           /\ UNCHANGED <<harnessVars, sideVars>>

\* Execute(session_id, transaction_id, BoundQuery): transaction id 0 is
\* autocommit; any other id must name an OPEN transaction of the session.
\* The statement goes to the engine once; a failure of the engine is the
\* ExecutionFailed of the call.
Execute(s, t) ==
    \E q \in BoundQueries, fails \in BOOLEAN :
        LET r == IF t = 0 THEN "OK" ELSE CheckTx(s, t, txState, txSession)
            result == IF r # "OK" THEN r
                      ELSE IF fails THEN "ExecutionFailed" ELSE "OK"
            work == IF r # "OK" THEN <<>> ELSE <<Statement(s, t, q, ~fails)>>
        IN /\ r # "OK" => ~fails
           /\ lastCall' = CallWork("Execute", s, t, result,
                                   IF result = "OK" THEN EngineResult(q) ELSE 0,
                                   q, work)
           /\ txUsed' = IF result = "OK" /\ t # 0
                        THEN [txUsed EXCEPT ![t] = TRUE] ELSE txUsed
           /\ UNCHANGED <<sessions, nextTxId, txState, txSession, begun>>
           /\ UNCHANGED <<harnessVars, sideVars>>

\* The result list of a batch the engine ran up to query failAt (0: to the
\* end): none at all when a query failed.
BatchResultsPartial(queries, failAt) ==
    [i \in 1..(IF failAt = 0 THEN Len(queries) ELSE failAt - 1) |->
        EngineResult(queries[i])]

BatchResults(queries, failAt) ==
    IF failAt # 0 THEN <<>>
    ELSE [i \in 1..Len(queries) |-> EngineResult(queries[i])]

\* The statements of a batch in the order the executor issues them.
BatchOrderReversed(queries) ==
    [i \in 1..Len(queries) |-> queries[Len(queries) + 1 - i]]

BatchOrder(queries) == queries

\* ExecuteBatch(session_id, transaction_id, list<BoundQuery>): the queries
\* go to the engine one by one, all in the transaction context of the call;
\* the engine may report a failure on any of them, which ends the call.
ExecuteBatch(s, t) ==
    \E queries \in Batches, failAt \in 0..MaxBatch :
        LET r == IF t = 0 THEN "OK" ELSE CheckTx(s, t, txState, txSession)
            issued == BatchOrder(queries)
            n == IF failAt = 0 THEN Len(issued) ELSE failAt
            work == [i \in 1..n |-> Statement(s, t, issued[i], i # failAt)]
        IN /\ failAt <= Len(queries)
           /\ IF r # "OK"
              THEN /\ failAt = 0
                   /\ lastCall' = CallWork("ExecuteBatch", s, t, r, <<>>, queries, <<>>)
              ELSE /\ lastCall' =
                          CallWork("ExecuteBatch", s, t,
                                   IF failAt = 0 THEN "OK" ELSE "ExecutionFailed",
                                   BatchResults(queries, failAt), queries, work)
           /\ UNCHANGED <<sessions, nextTxId, txState, txSession, txUsed, begun>>
           /\ UNCHANGED <<harnessVars, sideVars>>

\* ------------------------------------------------------------ Query Splitter
\* The split counts callers ask for: none, too few, some, more than keys.
SplitCounts == ((0 - 1)..MaxSplit) \cup {KeySpace + 2}

\* The number of sub-ranges for split_count n: no more than there are keys.
SplitParts(n) == IF n < KeySpace THEN n ELSE KeySpace

\* Sub-range i of k: keys lo..hi-1.
KeyRangeEqualSize(i, k) ==
    [lo |-> (i - 1) * (KeySpace \div k), hi |-> i * (KeySpace \div k)]

KeyRange(i, k) ==
    [lo |-> ((i - 1) * KeySpace) \div k, hi |-> (i * KeySpace) \div k]

\* The check SplitQuery makes on split_count before any engine work.
CheckSplitCountNegative(n) == IF n < 0 THEN "InvalidArgument" ELSE "OK"

CheckSplitCount(n) == IF n <= 0 THEN "InvalidArgument" ELSE "OK"

\* SplitQuery(BoundQuery, split_count) -> list<QuerySplit>
SplitQuery ==
    \E q \in BoundQueries, n \in SplitCounts :
        LET r == CheckSplitCount(n)
            k == SplitParts(n)
            stats == Statement(0, 0, [Sql |-> "table statistics",
                                      BindVariables |-> q.BindVariables], TRUE)
            splits == [i \in 1..k |->
                          [Query |-> q, KeyRange |-> KeyRange(i, k),
                           RowCount |-> KeyRange(i, k).hi - KeyRange(i, k).lo]]
        IN /\ lastCall' =
                  IF r # "OK"
                  THEN CallWork("SplitQuery", 0, 0, r, <<>>, <<q, n>>, <<>>)
                  ELSE CallWork("SplitQuery", 0, 0, "OK", splits, <<q, n>>, <<stats>>)
           /\ UNCHANGED <<sessions, nextTxId, txState, txSession, txUsed, begun>>
           /\ UNCHANGED <<harnessVars, sideVars>>


\* ================================================================ harness
\* tabletconntest.go: the fake server, the TestSuite driver and the
\* streaming producer/consumer.

\* ------------------------------------------------------------------ bounds
MaxRuns == 2      \* TestSuite runs over the life of the process
StreamBuf == 1    \* capacity of the stream between producer and consumer

\* ------------------------------------------------------- program constants
testSessionID == 5678
beginTransactionID == 9990
commitTransactionID == 999044
rollbackTransactionID == 999044
executeTransactionID == 678
streamExecuteTransactionID == 6789992
executeBatchTransactionID == 678
splitQuerySplitCount == 372

\* ------------------------------------------------------------ Go values
\* A slice: nil and empty differ for reflect.DeepEqual.
Slice(elems) == [nil |-> FALSE, elems |-> elems]
NilSlice == [nil |-> TRUE, elems |-> <<>>]

\* An error is its message, as a sequence of pieces; nil is the empty one.
NoErr == <<>>
NoPanic == <<>>

\* testTabletError.Error()
testTabletErrorNoPrefix == <<"generic error">>

testTabletError == <<"error: ", "generic error">>
expectedErrMatch == <<"error: ", "generic error">>
caughtMatch == <<"caught test panic">>
TestPanic == <<"test-triggered panic">>
TestPanicEarly == <<"test-triggered panic early">>
TestPanicLate == <<"test-triggered panic late">>

\* strings.Contains(msg, needle)
Contains(msg, needle) ==
    \E i \in 1..(Len(msg) + 1) :
        /\ i + Len(needle) - 1 <= Len(msg)
        /\ SubSeq(msg, i, i + Len(needle) - 1) = needle

\* HandlePanic: a recovered panic x overwrites the error of the call.
HandlePanicAsTabletError(err, x) ==
    IF x # NoPanic THEN testTabletError ELSE err

HandlePanic(err, x) ==
    IF x # NoPanic THEN <<"caught test panic", ": ">> \o x ELSE err

Field(name, type) == [Name |-> name, Type |-> type]

QueryResult(fields, rowsAffected, insertId, rows) ==
    [Fields |-> fields, RowsAffected |-> rowsAffected, InsertId |-> insertId,
     Rows |-> rows]

ZeroQueryResult == QueryResult(NilSlice, 0, 0, NilSlice)

executeQuery == "executeQuery"
executeBindVars == [bind1 |-> 1114444]
executeQueryResult ==
    QueryResult(Slice(<<Field("field1", 42), Field("field2", 73)>>), 123, 72,
                Slice(<<<<"row1 value1", "row1 value2">>,
                        <<"row2 value1", "row2 value2">>>>))

streamExecuteQuery == "streamExecuteQuery"
streamExecuteBindVars == [bind1 |-> 93848000]
streamExecuteQueryResult1 ==
    QueryResult(Slice(<<Field("field1", 42), Field("field2", 73)>>), 0, 0,
                NilSlice)
streamExecuteQueryResult2 ==
    QueryResult(NilSlice, 0, 0,
                Slice(<<<<"row1 value1", "row1 value2">>,
                        <<"row2 value1", "row2 value2">>>>))

BoundQuery(sql, bindVars) == [Sql |-> sql, BindVariables |-> bindVars]

executeBatchQueries ==
    <<BoundQuery("executeBatchQueries1", [bind1 |-> 43]),
      BoundQuery("executeBatchQueries2", [bind2 |-> 72])>>
executeBatchQueryResultList ==
    <<QueryResult(Slice(<<Field("field1", 46)>>), 1232, 712,
                  Slice(<<<<"row1 value1">>, <<"row2 value1">>>>)),
      QueryResult(Slice(<<Field("field1", 42)>>), 12333, 74442,
                  Slice(<<<<"row1 value1", "row1 value2">>>>))>>

splitQueryBoundQuery == BoundQuery("splitQuery", [bind1 |-> 43])
splitQueryQuerySplitList ==
    <<[Query |-> BoundQuery("splitQuery", [bind1 |-> 43, keyspace_id |-> 3333]),
       RowCount |-> 4456]>>

\* ------------------------------------------------- FakeQueryService methods
\* What a method of the fake did: the reply it filled in, the error it
\* returned, the value it panicked with, the f.t.Errorf calls it made.
Done(reply, err, x, errorfs) ==
    [reply |-> reply, err |-> err, panic |-> x, errorfs |-> errorfs]

Bad(cond) == IF cond THEN 1 ELSE 0

FakeGetSessionId(f, params) == testSessionID

FakeBegin(f, session) ==
    IF f.hasError THEN Done(0, testTabletError, NoPanic, 0)
    ELSE IF f.panics THEN Done(0, NoErr, TestPanic, 0)
    ELSE Done(beginTransactionID, NoErr, NoPanic,
              Bad(session.SessionId # testSessionID)
              + Bad(session.TransactionId # 0))

FakeCommit(f, session) ==
    IF f.hasError THEN Done(0, testTabletError, NoPanic, 0)
    ELSE IF f.panics THEN Done(0, NoErr, TestPanic, 0)
    ELSE Done(0, NoErr, NoPanic,
              Bad(session.SessionId # testSessionID)
              + Bad(session.TransactionId # commitTransactionID))

FakeRollback(f, session) ==
    IF f.hasError THEN Done(0, testTabletError, NoPanic, 0)
    ELSE IF f.panics THEN Done(0, NoErr, TestPanic, 0)
    ELSE Done(0, NoErr, NoPanic,
              Bad(session.SessionId # testSessionID)
              + Bad(session.TransactionId # rollbackTransactionID))

FakeExecuteNoTxCheck(f, query) ==
    IF f.hasError THEN Done(ZeroQueryResult, testTabletError, NoPanic, 0)
    ELSE IF f.panics THEN Done(ZeroQueryResult, NoErr, TestPanic, 0)
    ELSE Done(executeQueryResult, NoErr, NoPanic,
              Bad(query.Sql # executeQuery)
              + Bad(query.BindVariables # executeBindVars)
              + Bad(query.SessionId # testSessionID))

FakeExecute(f, query) ==
    IF f.hasError THEN Done(ZeroQueryResult, testTabletError, NoPanic, 0)
    ELSE IF f.panics THEN Done(ZeroQueryResult, NoErr, TestPanic, 0)
    ELSE Done(executeQueryResult, NoErr, NoPanic,
              Bad(query.Sql # executeQuery)
              + Bad(query.BindVariables # executeBindVars)
              + Bad(query.SessionId # testSessionID)
              + Bad(query.TransactionId # executeTransactionID))

FakeExecuteBatch(f, queryList) ==
    IF f.hasError THEN Done(<<>>, testTabletError, NoPanic, 0)
    ELSE IF f.panics THEN Done(<<>>, NoErr, TestPanic, 0)
    ELSE Done(executeBatchQueryResultList, NoErr, NoPanic,
              Bad(queryList.Queries # executeBatchQueries)
              + Bad(queryList.SessionId # testSessionID)
              + Bad(queryList.TransactionId # executeBatchTransactionID))

FakeSplitQuery(f, req) ==
    IF f.hasError THEN Done(<<>>, testTabletError, NoPanic, 0)
    ELSE IF f.panics THEN Done(<<>>, NoErr, TestPanic, 0)
    ELSE Done(splitQueryQuerySplitList, NoErr, NoPanic,
              Bad(req.Query # splitQueryBoundQuery)
              + Bad(req.SplitCount # splitQuerySplitCount))


\* ------------------------------------------------------------- connection
\* The tabletconn/queryservice pair under test (the RPC transport) is not
\* among the sources; it is written from what TestSuite demands of it.

\* The behaviours in which the transports the suite accepts may differ.
Transports ==
    [errInCall : BOOLEAN,   \* an early stream failure fails the call itself
     keepsNil : BOOLEAN,    \* a nil slice arrives as nil rather than empty
     prefix : BOOLEAN]      \* the client wraps the server's error message

\* An error as the client reports it.
WireErr(tr, err) ==
    IF err = NoErr THEN NoErr
    ELSE IF tr.prefix THEN <<"vttablet: ">> \o err
    ELSE err

WireSlice(tr, s) == IF s.nil /\ ~tr.keepsNil THEN Slice(<<>>) ELSE s

\* A QueryResult as it arrives at the client.
WireResult(tr, qr) ==
    [qr EXCEPT !.Fields = WireSlice(tr, qr.Fields),
               !.Rows = WireSlice(tr, qr.Rows)]

\* Section 4.6: the two generations of a method differ in the channel that
\* carries an error.  The first generation embeds it in the reply payload
\* when the server-wide flag says so; the second always fails the call.
Embeds(gen, flag) == gen = 1 /\ flag

\* The response of the server to a call that ended with err.
Respond(gen, flag, reply, err) ==
    [reply |-> IF err = NoErr THEN reply ELSE 0,
     replyErr |-> IF Embeds(gen, flag) THEN err ELSE NoErr,
     callErr |-> IF Embeds(gen, flag) THEN NoErr ELSE err]

\* The error the client method returns for a response.
ClientErrCallOnly(resp) == resp.callErr

ClientErr(resp) ==
    IF resp.callErr # NoErr THEN resp.callErr ELSE resp.replyErr

Channel(resp) ==
    IF resp.callErr # NoErr THEN "call"
    ELSE IF resp.replyErr # NoErr THEN "reply"
    ELSE "none"

\* A unary call through the panic guard of the server, as the client sees
\* it under a setting of the error-delivery flag.
ServedWith(tr, flag, method, gen, h) ==
    LET resp == Respond(gen, flag, h.reply, HandlePanic(h.err, h.panic))
        err == ClientErr(resp)
    IN [method |-> method, gen |-> gen,
        reply |-> IF err = NoErr THEN resp.reply ELSE 0,
        ok |-> err = NoErr,
        err |-> WireErr(tr, err),
        channel |-> Channel(resp),
        panicked |-> h.panic # NoPanic,
        errorfs |-> h.errorfs]

Served(tr, method, gen, h) == ServedWith(tr, RPCErrorOnlyInReply, method, gen, h)

NoRpc ==
    [method |-> "none", gen |-> 1, reply |-> 0, ok |-> TRUE, err |-> NoErr,
     channel |-> "none", panicked |-> FALSE, errorfs |-> 0]

Session(sid, txid) == [SessionId |-> sid, TransactionId |-> txid]

ConnBegin(gen) ==
    Served(transport, "Begin", gen, FakeBegin(fake, Session(connSession, 0)))

ConnCommit(gen, txid) ==
    Served(transport, "Commit", gen, FakeCommit(fake, Session(connSession, txid)))

ConnRollback(gen, txid) ==
    Served(transport, "Rollback", gen,
           FakeRollback(fake, Session(connSession, txid)))

ConnExecute(sql, bindVars, txid) ==
    Served(transport, "Execute", 1,
           FakeExecute(fake, [Sql |-> sql, BindVariables |-> bindVars,
                              SessionId |-> connSession, TransactionId |-> txid]))

ConnExecuteBatch(queries, txid) ==
    Served(transport, "ExecuteBatch", 1,
           FakeExecuteBatch(fake, [Queries |-> queries, SessionId |-> connSession,
                                   TransactionId |-> txid]))

ConnSplitQuery(query, splitCount) ==
    Served(transport, "SplitQuery", 1,
           FakeSplitQuery(fake, [Query |-> query, SplitCount |-> splitCount]))

\* ---------------------------------------------------------------- TestSuite
SuiteSteps ==
    <<"testBegin", "testBegin2", "testCommit", "testRollback", "testExecute",
      "testStreamExecute", "testStreamExecute2", "testExecuteBatch",
      "testSplitQuery",
      "setHasError",
      "testBeginError", "testBegin2Error", "testCommitError",
      "testRollbackError", "testExecuteError", "testStreamExecuteError",
      "testStreamExecute2Error", "testExecuteBatchError", "testSplitQueryError",
      "clearHasError",
      "setPanics",
      "testBeginPanics", "testBegin2Panics", "testCommitPanics",
      "testRollbackPanics", "testExecutePanics", "testStreamExecutePanics",
      "testStreamExecute2Panics", "testExecuteBatchPanics",
      "testSplitQueryPanics",
      "clearPanics">>

Running(step) ==
    /\ suiteIdx \in 1..Len(SuiteSteps)
    /\ SuiteSteps[suiteIdx] = step
    /\ ~aborted

\* What a test function concluded: "pass", "errorf" (t.Errorf, the test goes
\* on) or "fatalf" (t.Fatalf, the test goroutine stops).
ExpectOK(r, want) ==
    IF ~r.ok THEN "fatalf"
    ELSE IF r.reply # want THEN "errorf"
    ELSE "pass"

ExpectNoErr(r) == IF ~r.ok THEN "fatalf" ELSE "pass"

ExpectError(r) ==
    IF r.ok THEN "fatalf"
    ELSE IF ~Contains(r.err, expectedErrMatch) THEN "errorf"
    ELSE "pass"

ExpectPanic(r) ==
    IF r.ok \/ ~Contains(r.err, caughtMatch) THEN "fatalf" ELSE "pass"

\* One test function that makes one unary call r and concludes verdict.
UnaryTest(step, r, verdict) ==
    /\ Running(step)
    /\ lastRpc' = r
    /\ faults' = IF r.panicked THEN faults + 1 ELSE faults
    /\ failed' = (failed \/ verdict # "pass" \/ r.errorfs > 0)
    /\ aborted' = (verdict = "fatalf")
    /\ suiteIdx' = IF verdict = "fatalf" THEN suiteIdx ELSE suiteIdx + 1
    /\ UNCHANGED <<fake, panicWait, errorWait, nextChan, chanClosed, doubleClose,
                   connSession, transport, RPCErrorOnlyInReply, fresh, runs,
                   cliPc>>
    /\ UNCHANGED streamVars
    /\ UNCHANGED <<txVars, execVars, sideVars>>

testBegin ==
    LET r == ConnBegin(1) IN UnaryTest("testBegin", r, ExpectOK(r, beginTransactionID))

testBeginError ==
    LET r == ConnBegin(1) IN UnaryTest("testBeginError", r, ExpectError(r))

testBeginPanics ==
    LET r == ConnBegin(1) IN UnaryTest("testBeginPanics", r, ExpectPanic(r))

testBegin2 ==
    LET r == ConnBegin(2) IN UnaryTest("testBegin2", r, ExpectOK(r, beginTransactionID))

testBegin2Error ==
    LET r == ConnBegin(2) IN UnaryTest("testBegin2Error", r, ExpectError(r))

testBegin2Panics ==
    LET r == ConnBegin(2) IN UnaryTest("testBegin2Panics", r, ExpectPanic(r))

testCommit ==
    LET r == ConnCommit(1, commitTransactionID) IN
    UnaryTest("testCommit", r, ExpectNoErr(r))

testCommitError ==
    LET r == ConnCommit(IF RPCErrorOnlyInReply THEN 2 ELSE 1, commitTransactionID) IN
    UnaryTest("testCommitError", r, ExpectError(r))

testCommitPanics ==
    LET r == ConnCommit(1, commitTransactionID) IN
    UnaryTest("testCommitPanics", r, ExpectPanic(r))

testRollback ==
    LET r == ConnRollback(1, rollbackTransactionID) IN
    UnaryTest("testRollback", r, ExpectNoErr(r))

testRollbackError ==
    LET r == ConnRollback(IF RPCErrorOnlyInReply THEN 2 ELSE 1, commitTransactionID) IN
    UnaryTest("testRollbackError", r, ExpectError(r))

testRollbackPanics ==
    LET r == ConnRollback(1, rollbackTransactionID) IN
    UnaryTest("testRollbackPanics", r, ExpectPanic(r))

testExecute ==
    LET r == ConnExecute(executeQuery, executeBindVars, executeTransactionID) IN
    UnaryTest("testExecute", r, ExpectOK(r, executeQueryResult))

testExecuteError ==
    LET r == ConnExecute(executeQuery, executeBindVars, executeTransactionID) IN
    UnaryTest("testExecuteError", r, ExpectError(r))

testExecutePanics ==
    LET r == ConnExecute(executeQuery, executeBindVars, executeTransactionID) IN
    UnaryTest("testExecutePanics", r, ExpectPanic(r))

testExecuteBatch ==
    LET r == ConnExecuteBatch(executeBatchQueries, executeBatchTransactionID) IN
    UnaryTest("testExecuteBatch", r, ExpectOK(r, executeBatchQueryResultList))

testExecuteBatchError ==
    LET r == ConnExecuteBatch(executeBatchQueries, executeBatchTransactionID) IN
    UnaryTest("testExecuteBatchError", r, ExpectError(r))

testExecuteBatchPanics ==
    LET r == ConnExecuteBatch(executeBatchQueries, executeBatchTransactionID) IN
    UnaryTest("testExecuteBatchPanics", r, ExpectPanic(r))

testSplitQuery ==
    LET r == ConnSplitQuery(splitQueryBoundQuery, splitQuerySplitCount) IN
    UnaryTest("testSplitQuery", r, ExpectOK(r, splitQueryQuerySplitList))

testSplitQueryError ==
    LET r == ConnSplitQuery(splitQueryBoundQuery, splitQuerySplitCount) IN
    UnaryTest("testSplitQueryError", r, ExpectError(r))

testSplitQueryPanics ==
    LET r == ConnSplitQuery(splitQueryBoundQuery, splitQuerySplitCount) IN
    UnaryTest("testSplitQueryPanics", r, ExpectPanic(r))


\* fake.hasError = true / false, fake.panics = true / false
SetFlag(step, field, value) ==
    /\ Running(step)
    /\ fake' = [fake EXCEPT ![field] = value]
    /\ suiteIdx' = IF suiteIdx = Len(SuiteSteps) THEN 0 ELSE suiteIdx + 1
    /\ UNCHANGED <<panicWait, errorWait, nextChan, chanClosed, doubleClose,
                   connSession, transport, RPCErrorOnlyInReply, fresh, runs,
                   cliPc, failed, aborted, lastRpc, faults>>
    /\ UNCHANGED streamVars
    /\ UNCHANGED <<txVars, execVars, sideVars>>

setHasError == SetFlag("setHasError", "hasError", TRUE)
clearHasError == SetFlag("clearHasError", "hasError", FALSE)
setPanics == SetFlag("setPanics", "panics", TRUE)
clearPanics == SetFlag("clearPanics", "panics", FALSE)

\* A caller of the package enters TestSuite with the fake and a connection.
TestSuite ==
    /\ suiteIdx = 0
    /\ ~aborted
    /\ runs < MaxRuns
    /\ runs' = runs + 1
    /\ suiteIdx' = 1
    /\ fresh' = FALSE
    /\ \E b \in BOOLEAN : RPCErrorOnlyInReply' = b
    /\ UNCHANGED <<fake, panicWait, errorWait, nextChan, chanClosed, doubleClose,
                   connSession, transport, cliPc, failed, aborted, lastRpc,
                   faults>>
    /\ UNCHANGED streamVars
    /\ UNCHANGED <<txVars, execVars, sideVars>>

NoStream ==
    [srvPc |-> "idle", closed |-> FALSE, chunks |-> <<>>, err |-> NoErr]

NewFake == [hasError |-> FALSE, panics |-> FALSE, streamExecutePanicsEarly |-> FALSE]

InitFake ==
    /\ fake = NewFake
    /\ panicWait = 1
    /\ errorWait = 2
    /\ nextChan = 3
    /\ chanClosed = {}
    /\ doubleClose = FALSE
    /\ connSession = FakeGetSessionId(NewFake, 0)
    /\ transport \in Transports
    /\ RPCErrorOnlyInReply = FALSE
    /\ fresh = TRUE
    /\ runs = 0
    /\ suiteIdx = 0
    /\ cliPc = 1
    /\ failed = FALSE
    /\ aborted = FALSE
    /\ lastRpc = NoRpc
    /\ faults = 0

InitStream ==
    /\ srvPc = NoStream.srvPc
    /\ srvWaitOn = 0
    /\ srvPanicked = FALSE
    /\ sent = NoStream.chunks
    /\ stream = NoStream.chunks
    /\ recv = NoStream.chunks
    /\ streamClosed = NoStream.closed
    /\ closeCount = 0
    /\ srvErr = NoStream.err
    /\ callErr = NoStream.err
    /\ termRead = FALSE
    /\ termErr = NoStream.err
    /\ sawClose = FALSE


\* CreateFakeServer, followed by the dial of a connection to it.
CreateFakeServer ==
    /\ suiteIdx = 0
    /\ ~aborted
    /\ ~fresh
    /\ runs < MaxRuns
    /\ panicWait' = nextChan
    /\ errorWait' = nextChan + 1
    /\ nextChan' = nextChan + 2
    /\ fake' = NewFake
    /\ fresh' = TRUE
    /\ \E tr \in Transports : transport' = tr
    /\ connSession' = FakeGetSessionId(NewFake, 0)
    /\ srvPc' = NoStream.srvPc
    /\ srvWaitOn' = 0
    /\ srvPanicked' = FALSE
    /\ sent' = NoStream.chunks
    /\ stream' = NoStream.chunks
    /\ recv' = NoStream.chunks
    /\ streamClosed' = NoStream.closed
    /\ closeCount' = 0
    /\ srvErr' = NoStream.err
    /\ callErr' = NoStream.err
    /\ termRead' = FALSE
    /\ termErr' = NoStream.err
    /\ sawClose' = FALSE
    /\ UNCHANGED <<chanClosed, doubleClose, RPCErrorOnlyInReply, runs, suiteIdx,
                   cliPc, failed, aborted, lastRpc, faults>>
    /\ UNCHANGED <<txVars, execVars, sideVars>>

\* ------------------------------------- FakeQueryService.StreamExecute
\* The method runs in a goroutine of the server while the test function
\* consumes the stream, so it is modelled one blocking point at a time.

harnessKeep == <<panicWait, errorWait, nextChan, chanClosed, doubleClose,
                 connSession, transport, RPCErrorOnlyInReply, fresh, runs,
                 suiteIdx, cliPc, aborted, lastRpc, fake>>

\* sendReply(qr): blocks while the stream is full.
SendReply(qr) ==
    /\ Len(stream) < StreamBuf
    /\ stream' = Append(stream, qr)
    /\ sent' = Append(sent, qr)

\* What is left of the chunks in flight when the method ends with err: a
\* transport need not send earlier messages once an error has been triggered.
InFlightAfter(err, inflight) ==
    IF err = NoErr THEN {inflight}
    ELSE {SubSeq(inflight, 1, k) : k \in 0..Len(inflight)}

\* The method returned err or panicked with x: the panic guard runs, the
\* result cell is set and the stream is closed.
Finish(err, x) ==
    LET e == HandlePanic(err, x) IN
    /\ srvErr' = e
    /\ srvPanicked' = (x # NoPanic)
    /\ faults' = IF x # NoPanic THEN faults + 1 ELSE faults
    /\ streamClosed' = TRUE
    /\ closeCount' = closeCount + 1
    /\ srvPc' = "done"

\* The query the connection sends for StreamExecute.
ConnStreamQuery ==
    [Sql |-> streamExecuteQuery, BindVariables |-> streamExecuteBindVars,
     SessionId |-> connSession, TransactionId |-> streamExecuteTransactionID]

\* Lines 349-357: the f.t.Errorf calls the checks of the query make.
StreamExecuteChecks(query) ==
    Bad(query.Sql # streamExecuteQuery)
    + Bad(query.BindVariables # streamExecuteBindVars)
    + Bad(query.SessionId # testSessionID)

\* Lines 346-358: the early panic, the checks of the query, sendReply of
\* the fields.
StreamExecuteSend1PanicsAfterFields ==
    /\ srvPc = "start"
    /\ IF fake.panics /\ fake.streamExecutePanicsEarly
       THEN /\ Finish(NoErr, TestPanicEarly)
            /\ sent' = Append(sent, streamExecuteQueryResult1)
            /\ stream' = Append(stream, streamExecuteQueryResult1)
            /\ UNCHANGED <<failed, srvWaitOn>>
       ELSE /\ SendReply(streamExecuteQueryResult1)
            /\ srvPc' = "sent1"
            /\ failed' = (failed \/ StreamExecuteChecks(ConnStreamQuery) > 0)
            /\ UNCHANGED <<faults, srvWaitOn, srvPanicked, streamClosed,
                           closeCount, srvErr>>
    /\ UNCHANGED <<recv, callErr, termRead, termErr, sawClose>>
    /\ UNCHANGED harnessKeep
    /\ UNCHANGED <<txVars, execVars, sideVars>>

StreamExecuteSend1Rows ==
    /\ srvPc = "start"
    /\ SendReply(streamExecuteQueryResult2)
    /\ srvPc' = "sent1"
    /\ UNCHANGED <<failed, faults, srvWaitOn, srvPanicked, recv, streamClosed,
                   closeCount, srvErr, callErr, termRead, termErr, sawClose>>
    /\ UNCHANGED harnessKeep
    /\ UNCHANGED <<txVars, execVars, sideVars>>

StreamExecuteSend1 ==
    /\ srvPc = "start"
    /\ IF fake.panics /\ fake.streamExecutePanicsEarly
       THEN /\ Finish(NoErr, TestPanicEarly)
            /\ \E rest \in InFlightAfter(TestPanicEarly, stream) : stream' = rest
            /\ UNCHANGED <<failed, srvWaitOn, sent>>
       ELSE /\ SendReply(streamExecuteQueryResult1)
            /\ srvPc' = "sent1"
            /\ failed' = (failed \/ StreamExecuteChecks(ConnStreamQuery) > 0)
            /\ UNCHANGED <<faults, srvWaitOn, srvPanicked, streamClosed,
                           closeCount, srvErr>>
    /\ UNCHANGED <<recv, callErr, termRead, termErr, sawClose>>
    /\ UNCHANGED harnessKeep
    /\ UNCHANGED <<txVars, execVars, sideVars>>

\* Lines 361-371: which way the method goes after the fields were sent.
StreamExecuteBranchStale ==
    /\ srvPc = "sent1"
    /\ IF fake.panics /\ ~fake.streamExecutePanicsEarly
       THEN srvPc' = "panicWait" /\ srvWaitOn' = panicWait
       ELSE IF fake.hasError
       THEN /\ srvPc' = "errorWait"
            /\ srvWaitOn' = IF chanClosed # {} THEN CHOOSE c \in chanClosed : TRUE
                            ELSE errorWait
       ELSE srvPc' = "send2" /\ srvWaitOn' = 0
    /\ UNCHANGED <<failed, faults, srvPanicked, sent, stream, recv, streamClosed,
                   closeCount, srvErr, callErr, termRead, termErr, sawClose>>
    /\ UNCHANGED harnessKeep
    /\ UNCHANGED <<txVars, execVars, sideVars>>

StreamExecuteBranch ==
    /\ srvPc = "sent1"
    /\ IF fake.panics /\ ~fake.streamExecutePanicsEarly
       THEN srvPc' = "panicWait" /\ srvWaitOn' = panicWait
       ELSE IF fake.hasError
       THEN srvPc' = "errorWait" /\ srvWaitOn' = errorWait
       ELSE srvPc' = "send2" /\ srvWaitOn' = 0
    /\ UNCHANGED <<failed, faults, srvPanicked, sent, stream, recv, streamClosed,
                   closeCount, srvErr, callErr, termRead, termErr, sawClose>>
    /\ UNCHANGED harnessKeep
    /\ UNCHANGED <<txVars, execVars, sideVars>>

\* Lines 363-364: <-panicWait, then the late panic.
StreamExecutePanicLateNoWait ==
    /\ srvPc = "panicWait"
    /\ Finish(NoErr, TestPanicLate)
    /\ \E rest \in InFlightAfter(TestPanicLate, stream) : stream' = rest
    /\ UNCHANGED <<failed, srvWaitOn, sent, recv, callErr, termRead, termErr,
                   sawClose>>
    /\ UNCHANGED harnessKeep
    /\ UNCHANGED <<txVars, execVars, sideVars>>

StreamExecutePanicLate ==
    /\ srvPc = "panicWait"
    /\ srvWaitOn \in chanClosed
    /\ Finish(NoErr, TestPanicLate)
    /\ \E rest \in InFlightAfter(TestPanicLate, stream) : stream' = rest
    /\ UNCHANGED <<failed, srvWaitOn, sent, recv, callErr, termRead, termErr,
                   sawClose>>
    /\ UNCHANGED harnessKeep
    /\ UNCHANGED <<txVars, execVars, sideVars>>

StreamExecuteErrorReturnsNil ==
    /\ srvPc = "errorWait"
    /\ srvWaitOn \in chanClosed
    /\ Finish(NoErr, NoPanic)
    /\ UNCHANGED <<failed, srvWaitOn, sent, stream, recv, callErr, termRead,
                   termErr, sawClose>>
    /\ UNCHANGED harnessKeep
    /\ UNCHANGED <<txVars, execVars, sideVars>>

\* Lines 369-370: <-errorWait, then return testTabletError.
StreamExecuteError ==
    /\ srvPc = "errorWait"
    /\ srvWaitOn \in chanClosed
    /\ Finish(testTabletError, NoPanic)
    /\ \E rest \in InFlightAfter(testTabletError, stream) : stream' = rest
    /\ UNCHANGED <<failed, srvWaitOn, sent, recv, callErr, termRead, termErr,
                   sawClose>>
    /\ UNCHANGED harnessKeep
    /\ UNCHANGED <<txVars, execVars, sideVars>>

StreamExecuteSend2AfterReturn ==
    /\ srvPc = "send2"
    /\ IF ~streamClosed
       THEN /\ streamClosed' = TRUE
            /\ closeCount' = closeCount + 1
            /\ UNCHANGED <<srvPc, sent, stream>>
       ELSE /\ SendReply(streamExecuteQueryResult2)
            /\ srvPc' = "done"
            /\ UNCHANGED <<streamClosed, closeCount>>
    /\ UNCHANGED <<failed, faults, srvWaitOn, srvPanicked, recv, srvErr, callErr,
                   termRead, termErr, sawClose>>
    /\ UNCHANGED harnessKeep
    /\ UNCHANGED <<txVars, execVars, sideVars>>

\* Line 372: sendReply of the rows.
StreamExecuteSend2 ==
    /\ srvPc = "send2"
    /\ SendReply(streamExecuteQueryResult2)
    /\ srvPc' = "return"
    /\ UNCHANGED <<failed, faults, srvWaitOn, srvPanicked, recv, streamClosed,
                   closeCount, srvErr, callErr, termRead, termErr, sawClose>>
    /\ UNCHANGED harnessKeep
    /\ UNCHANGED <<txVars, execVars, sideVars>>

\* Line 375: return nil.
StreamExecuteReturn ==
    /\ srvPc = "return"
    /\ Finish(NoErr, NoPanic)
    /\ UNCHANGED <<failed, srvWaitOn, sent, stream, recv, callErr, termRead,
                   termErr, sawClose>>
    /\ UNCHANGED harnessKeep
    /\ UNCHANGED <<txVars, execVars, sideVars>>


\* ------------------------------------------------- streaming test functions
\* Each streaming test is the list of its blocking steps; the actions below
\* execute the step at cliPc.
Op(op, arg) == [op |-> op, arg |-> arg]

testStreamExecute ==
    <<Op("call", "keep"), Op("ret", "ok"),
      Op("recv", "fields"), Op("recv", "rows"),
      Op("closed", ""), Op("errfunc", "nil")>>

\* The error test without the new channel at its end.
testStreamExecuteErrorNoReset ==
    <<Op("call", "keep"), Op("ret", "ok"),
      Op("recv", "fields"), Op("close", "errorWait"),
      Op("closed", ""), Op("errfunc", "generic")>>

\* The error test with its signal given before its first receive.
testStreamExecuteErrorSignalsFirst ==
    <<Op("call", "keep"), Op("ret", "ok"),
      Op("close", "errorWait"), Op("recv", "fields"),
      Op("closed", ""), Op("errfunc", "generic"),
      Op("make", "errorWait")>>

testStreamExecuteError ==
    <<Op("call", "keep"), Op("ret", "ok"),
      Op("recv", "fields"), Op("close", "errorWait"),
      Op("closed", ""), Op("errfunc", "generic"),
      Op("make", "errorWait")>>

testStreamExecutePanicsNoReset ==
    <<Op("call", "early"), Op("ret", "okOrCaught"),
      Op("closed", ""), Op("errfunc", "caught"),
      Op("call", "late"), Op("ret", "ok"),
      Op("recv", "fields"), Op("close", "panicWait"),
      Op("closed", ""), Op("errfunc", "caught")>>

testStreamExecutePanics ==
    <<Op("call", "early"), Op("ret", "okOrCaught"),
      Op("closed", ""), Op("errfunc", "caught"),
      Op("call", "late"), Op("ret", "ok"),
      Op("recv", "fields"), Op("close", "panicWait"),
      Op("closed", ""), Op("errfunc", "caught"),
      Op("make", "panicWait")>>

StreamTests ==
    {"testStreamExecute", "testStreamExecute2", "testStreamExecuteError",
     "testStreamExecute2Error", "testStreamExecutePanics",
     "testStreamExecute2Panics"}

Script(step) ==
    IF step \in {"testStreamExecute", "testStreamExecute2"} THEN testStreamExecute
    ELSE IF step \in {"testStreamExecuteError", "testStreamExecute2Error"}
    THEN testStreamExecuteError
    ELSE testStreamExecutePanics

\* The step the running streaming test is at.
At(op) ==
    /\ suiteIdx \in 1..Len(SuiteSteps)
    /\ SuiteSteps[suiteIdx] \in StreamTests
    /\ ~aborted
    /\ Script(SuiteSteps[suiteIdx])[cliPc].op = op

Arg == Script(SuiteSteps[suiteIdx])[cliPc].arg

\* The test function goes on by skip steps (past its end: the next test), or
\* stops at a t.Fatalf.
Advance(verdict, skip) ==
    LET last == Len(Script(SuiteSteps[suiteIdx])) IN
    /\ failed' = (failed \/ verdict # "pass")
    /\ aborted' = (verdict = "fatalf")
    /\ IF verdict = "fatalf" THEN UNCHANGED <<suiteIdx, cliPc>>
       ELSE IF cliPc + skip > last THEN suiteIdx' = suiteIdx + 1 /\ cliPc' = 1
       ELSE cliPc' = cliPc + skip /\ UNCHANGED suiteIdx

clientKeep == <<connSession, transport, RPCErrorOnlyInReply, fresh, runs, lastRpc,
                faults>>

\* conn.StreamExecute / conn.StreamExecute2: the request reaches the server,
\* which starts the method on a stream of its own.
StreamCall ==
    /\ At("call")
    /\ srvPc \in {"idle", "done"}
    /\ fake' = IF Arg = "keep" THEN fake
               ELSE [fake EXCEPT !.streamExecutePanicsEarly = (Arg = "early")]
    /\ srvPc' = "start"
    /\ srvWaitOn' = 0
    /\ srvPanicked' = FALSE
    /\ sent' = <<>>
    /\ stream' = <<>>
    /\ recv' = <<>>
    /\ streamClosed' = FALSE
    /\ closeCount' = 0
    /\ srvErr' = NoErr
    /\ callErr' = NoErr
    /\ termRead' = FALSE
    /\ termErr' = NoErr
    /\ sawClose' = FALSE
    /\ Advance("pass", 1)
    /\ UNCHANGED <<panicWait, errorWait, nextChan, chanClosed, doubleClose>>
    /\ UNCHANGED clientKeep
    /\ UNCHANGED <<txVars, execVars, sideVars>>

\* The generation of the streaming method the running test calls.
StreamGen ==
    IF SuiteSteps[suiteIdx] \in {"testStreamExecute2", "testStreamExecute2Error",
                                 "testStreamExecute2Panics"}
    THEN 2 ELSE 1

\* The result cell of the stream as the client reports it.
StreamErr ==
    WireErr(transport,
            ClientErr(Respond(StreamGen, RPCErrorOnlyInReply, 0, srvErr)))

\* The call returns (stream, errFunc, err).  A transport that reports an
\* early failure by the call itself waits for the first chunk or the close.
StreamCallReturn ==
    /\ At("ret")
    /\ transport.errInCall => (Len(stream) > 0 \/ streamClosed)
    /\ LET err == IF transport.errInCall /\ Len(stream) = 0
                  THEN StreamErr ELSE NoErr
           verdict == IF err = NoErr THEN "pass"
                      ELSE IF Arg = "ok" THEN "fatalf"
                      ELSE IF ~Contains(err, caughtMatch) THEN "fatalf"
                      ELSE "pass"
       IN /\ callErr' = err
          /\ Advance(verdict, IF err = NoErr THEN 1 ELSE 3)
    /\ UNCHANGED <<fake, panicWait, errorWait, nextChan, chanClosed, doubleClose,
                   srvPc, srvWaitOn, srvPanicked, sent, stream, recv,
                   streamClosed, closeCount, srvErr, termRead, termErr, sawClose>>
    /\ UNCHANGED clientKeep
    /\ UNCHANGED <<txVars, execVars, sideVars>>

\* if len(qr.Rows) == 0 { qr.Rows = nil }, likewise for Fields
Normalize(qr, want) ==
    IF want = "fields"
    THEN IF Len(qr.Rows.elems) = 0 THEN [qr EXCEPT !.Rows = NilSlice] ELSE qr
    ELSE IF Len(qr.Fields.elems) = 0 THEN [qr EXCEPT !.Fields = NilSlice] ELSE qr

Wanted(want) ==
    IF want = "fields" THEN streamExecuteQueryResult1 ELSE streamExecuteQueryResult2

\* qr, ok := <-stream where the test expects a result.
StreamRecv ==
    /\ At("recv")
    /\ Len(stream) > 0 \/ streamClosed
    /\ IF Len(stream) > 0
       THEN LET qr == WireResult(transport, Head(stream)) IN
            /\ recv' = Append(recv, qr)
            /\ stream' = Tail(stream)
            /\ Advance(IF Normalize(qr, Arg) = Wanted(Arg) THEN "pass" ELSE "errorf", 1)
            /\ UNCHANGED sawClose
       ELSE /\ sawClose' = TRUE
            /\ Advance("fatalf", 1)
            /\ UNCHANGED <<recv, stream>>
    /\ UNCHANGED <<fake, panicWait, errorWait, nextChan, chanClosed, doubleClose,
                   srvPc, srvWaitOn, srvPanicked, sent, streamClosed, closeCount,
                   srvErr, callErr, termRead, termErr>>
    /\ UNCHANGED clientKeep
    /\ UNCHANGED <<txVars, execVars, sideVars>>

\* qr, ok := <-stream where the test expects the stream to be closed.
StreamRecvClosed ==
    /\ At("closed")
    /\ Len(stream) > 0 \/ streamClosed
    /\ IF Len(stream) > 0
       THEN /\ recv' = Append(recv, WireResult(transport, Head(stream)))
            /\ stream' = Tail(stream)
            /\ Advance("fatalf", 1)
            /\ UNCHANGED sawClose
       ELSE /\ sawClose' = TRUE
            /\ Advance("pass", 1)
            /\ UNCHANGED <<recv, stream>>
    /\ UNCHANGED <<fake, panicWait, errorWait, nextChan, chanClosed, doubleClose,
                   srvPc, srvWaitOn, srvPanicked, sent, streamClosed, closeCount,
                   srvErr, callErr, termRead, termErr>>
    /\ UNCHANGED clientKeep
    /\ UNCHANGED <<txVars, execVars, sideVars>>

\* errFunc(): the result cell as the client reports it.
ErrFuncVerdict(want, err) ==
    IF want = "nil" THEN (IF err # NoErr THEN "fatalf" ELSE "pass")
    ELSE IF want = "generic"
    THEN (IF err = NoErr THEN "fatalf"
          ELSE IF ~Contains(err, expectedErrMatch) THEN "errorf" ELSE "pass")
    ELSE (IF err = NoErr \/ ~Contains(err, caughtMatch) THEN "fatalf" ELSE "pass")

ErrFunc ==
    /\ At("errfunc")
    /\ LET err == StreamErr IN
       /\ termErr' = err
       /\ termRead' = TRUE
       /\ Advance(ErrFuncVerdict(Arg, err), 1)
    /\ UNCHANGED <<fake, panicWait, errorWait, nextChan, chanClosed, doubleClose,
                   srvPc, srvWaitOn, srvPanicked, sent, stream, recv,
                   streamClosed, closeCount, srvErr, callErr, sawClose>>
    /\ UNCHANGED clientKeep
    /\ UNCHANGED <<txVars, execVars, sideVars>>

\* close(errorWait) / close(panicWait); closing a closed channel panics in
\* the test goroutine.
CloseWait ==
    /\ At("close")
    /\ LET ch == IF Arg = "errorWait" THEN errorWait ELSE panicWait IN
       IF ch \in chanClosed
       THEN /\ doubleClose' = TRUE
            /\ Advance("fatalf", 1)
            /\ UNCHANGED chanClosed
       ELSE /\ chanClosed' = chanClosed \cup {ch}
            /\ Advance("pass", 1)
            /\ UNCHANGED doubleClose
    /\ UNCHANGED <<fake, panicWait, errorWait, nextChan>>
    /\ UNCHANGED streamVars
    /\ UNCHANGED clientKeep
    /\ UNCHANGED <<txVars, execVars, sideVars>>

\* errorWait = make(chan struct{}) / panicWait = make(chan struct{})
MakeWait ==
    /\ At("make")
    /\ IF Arg = "errorWait"
       THEN errorWait' = nextChan /\ UNCHANGED panicWait
       ELSE panicWait' = nextChan /\ UNCHANGED errorWait
    /\ nextChan' = nextChan + 1
    /\ Advance("pass", 1)
    /\ UNCHANGED <<fake, chanClosed, doubleClose>>
    /\ UNCHANGED streamVars
    /\ UNCHANGED clientKeep
    /\ UNCHANGED <<txVars, execVars, sideVars>>

\* ------------------------------------------------------ Streaming Executor
\* spec.md 4.3: the producer of a StreamExecute call and its consumer, over
\* the stream variables above.  The executor lives in go/vt/tabletserver.
MaxChunks == 2    \* rows chunks of the largest result
MaxCalls == 2     \* StreamExecute calls

NoPlan == [rows |-> 0, failAt |-> 0]

InitExec ==
    /\ abandoned = "no"
    /\ cursor = "none"
    /\ plan = NoPlan
    /\ calls = 0

ExecutionFailed == <<"error: ", "execution failed">>
Cancelled == <<"error: ", "cancelled">>

RowsChunk(i) == QueryResult(NilSlice, 0, 0, Slice(<<<<i>>>>))

\* The chunks of a result: the fields, then the rows chunks in order.
PlanChunks(p) ==
    <<streamExecuteQueryResult1>> \o [i \in 1..p.rows |-> RowsChunk(i)]

execKeep == <<srvWaitOn, srvPanicked, callErr, calls, plan>>

\* The producer ends the call: the result cell is set, the stream closed and
\* the resources of the engine released.
ProducerEnds(err) ==
    /\ srvErr' = err
    /\ streamClosed' = TRUE
    /\ closeCount' = closeCount + 1
    /\ cursor' = "released"
    /\ srvPc' = "done"

\* StreamExecute(session_id, transaction_id, BoundQuery): the call returns
\* the stream and the terminal-error accessor; the engine opens a cursor.
StreamExecuteCall ==
    /\ srvPc \in {"idle", "done"}
    /\ calls < MaxCalls
    /\ calls' = calls + 1
    /\ \E n \in 0..MaxChunks, f \in 0..(MaxChunks + 1) :
           /\ f <= n + 1
           /\ plan' = [rows |-> n, failAt |-> f]
    /\ srvPc' = "running"
    /\ cursor' = "open"
    /\ abandoned' = "no"
    /\ sent' = <<>>
    /\ stream' = <<>>
    /\ recv' = <<>>
    /\ streamClosed' = FALSE
    /\ closeCount' = 0
    /\ srvErr' = NoErr
    /\ termRead' = FALSE
    /\ termErr' = NoErr
    /\ sawClose' = FALSE
    /\ UNCHANGED <<srvWaitOn, srvPanicked, callErr>>
    /\ UNCHANGED <<txVars, fakeVars, sideVars>>

\* The next chunk the producer has to send, if any.
NextChunk == Len(sent) + 1

HasNextChunk ==
    /\ srvPc = "running"
    /\ NextChunk <= Len(PlanChunks(plan))
    /\ NextChunk # plan.failAt

\* A send succeeds: there is room in the stream and the consumer is there.
Produce ==
    /\ HasNextChunk
    /\ abandoned = "no"
    /\ SendReply(PlanChunks(plan)[NextChunk])
    /\ UNCHANGED <<srvPc, recv, streamClosed, closeCount, srvErr, termRead,
                   termErr, sawClose, abandoned, cursor>>
    /\ UNCHANGED execKeep
    /\ UNCHANGED <<txVars, fakeVars, sideVars>>

\* A send fails because the consumer is gone; the producer, blocked on a
\* full stream or not, stops there.
SendFailsGoesOn ==
    /\ HasNextChunk
    /\ abandoned \in {"yes", "observed"}
    /\ abandoned' = "observed"
    /\ sent' = Append(sent, PlanChunks(plan)[NextChunk])
    /\ UNCHANGED <<srvPc, stream, recv, streamClosed, closeCount, srvErr,
                   termRead, termErr, sawClose, cursor>>
    /\ UNCHANGED execKeep
    /\ UNCHANGED <<txVars, fakeVars, sideVars>>

\* A producer for which the send to a consumer that is gone waits as a send
\* to a slow consumer does.
SendFailsWaits ==
    /\ HasNextChunk
    /\ abandoned = "yes"
    /\ UNCHANGED <<txVars, fakeVars, streamVars, execVars, sideVars>>

SendFails ==
    /\ HasNextChunk
    /\ abandoned = "yes"
    /\ abandoned' = "observed"
    /\ ProducerEnds(Cancelled)
    /\ UNCHANGED <<sent, stream, recv, termRead, termErr, sawClose>>
    /\ UNCHANGED execKeep
    /\ UNCHANGED <<txVars, fakeVars, sideVars>>

\* The engine reports a failure instead of the next chunk.
EngineFails ==
    /\ srvPc = "running"
    /\ NextChunk = plan.failAt
    /\ ProducerEnds(ExecutionFailed)
    /\ UNCHANGED <<sent, stream, recv, termRead, termErr, sawClose, abandoned>>
    /\ UNCHANGED execKeep
    /\ UNCHANGED <<txVars, fakeVars, sideVars>>

\* All chunks are sent.
ProducerDone ==
    /\ srvPc = "running"
    /\ NextChunk > Len(PlanChunks(plan))
    /\ plan.failAt # NextChunk
    /\ ProducerEnds(NoErr)
    /\ UNCHANGED <<sent, stream, recv, termRead, termErr, sawClose, abandoned>>
    /\ UNCHANGED execKeep
    /\ UNCHANGED <<txVars, fakeVars, sideVars>>

streamKeep == <<srvPc, sent, streamClosed, closeCount, srvErr, cursor>>

\* The consumer takes the next element of the sequence.
Consume ==
    /\ srvPc # "idle"
    /\ abandoned = "no"
    /\ ~sawClose
    /\ Len(stream) > 0 \/ streamClosed
    /\ IF Len(stream) > 0
       THEN /\ recv' = Append(recv, Head(stream))
            /\ stream' = Tail(stream)
            /\ UNCHANGED sawClose
       ELSE /\ sawClose' = TRUE
            /\ UNCHANGED <<recv, stream>>
    /\ UNCHANGED <<termRead, termErr, abandoned>>
    /\ UNCHANGED streamKeep
    /\ UNCHANGED execKeep
    /\ UNCHANGED <<txVars, fakeVars, sideVars>>

\* The consumer, having seen the close, asks the terminal-error accessor.
ReadTerminalError ==
    /\ sawClose
    /\ ~termRead
    /\ termRead' = TRUE
    /\ termErr' = srvErr
    /\ UNCHANGED <<stream, recv, sawClose, abandoned>>
    /\ UNCHANGED streamKeep
    /\ UNCHANGED execKeep
    /\ UNCHANGED <<txVars, fakeVars, sideVars>>

\* The consumer abandons the sequence before it has seen it closed.
Abandon ==
    /\ srvPc # "idle"
    /\ abandoned = "no"
    /\ ~sawClose
    /\ abandoned' = "yes"
    /\ stream' = <<>>
    /\ UNCHANGED <<recv, sawClose, termRead, termErr>>
    /\ UNCHANGED streamKeep
    /\ UNCHANGED execKeep
    /\ UNCHANGED <<txVars, fakeVars, sideVars>>

NextStream ==
    \/ StreamExecuteCall
    \/ Produce \/ SendFails \/ EngineFails \/ ProducerDone
    \/ Consume \/ ReadTerminalError \/ Abandon

\* ------------------------------------------------------- concurrent calls
\* spec.md 5: each call is served by a worker of its own; the table of
\* transactions is what the workers share.  Every session has one call in
\* flight at a time, on a transaction of its own.
NoPending == [pc |-> "idle", op |-> "none", tx |-> 0, value |-> 0]

InitConc == pending = [w \in SessionIds |-> NoPending]

\* A call of session w arrives: a Begin, or the Commit or Rollback of an open
\* transaction of the session.
Invoke(w, op, t) ==
    /\ pending[w].pc = "idle"
    /\ IF op = "Begin" THEN t = 0
       ELSE t \in TxIds /\ txState[t] = "OPEN" /\ txSession[t] = w
    /\ pending' = [pending EXCEPT ![w] =
                       [pc |-> "called", op |-> op, tx |-> t, value |-> 0]]
    /\ UNCHANGED <<txVars, harnessVars, runnerVars>>

\* A Begin whose update of the next id is lost when another Begin is in
\* flight.
ApplyBeginLostUpdate(w) ==
    /\ pending[w].pc = "called"
    /\ pending[w].op = "Begin"
    /\ nextTxId <= MaxTx
    /\ txState' = [txState EXCEPT ![nextTxId] = "OPEN"]
    /\ txSession' = [txSession EXCEPT ![nextTxId] = w]
    /\ nextTxId' = IF \E v \in SessionIds \ {w} :
                         pending[v].pc = "called" /\ pending[v].op = "Begin"
                   THEN nextTxId ELSE nextTxId + 1
    /\ begun' = Append(begun, nextTxId)
    /\ lastCall' = Call("Begin", w, 0, "OK", nextTxId)
    /\ pending' = [pending EXCEPT ![w].pc = "applied", ![w].value = nextTxId]
    /\ UNCHANGED <<sessions, txUsed>>
    /\ UNCHANGED <<harnessVars, runnerVars>>

\* The worker of a Begin allocates: one step on the table.
ApplyBegin(w) ==
    /\ pending[w].pc = "called"
    /\ pending[w].op = "Begin"
    /\ BeginOnTable(w)
    /\ pending' = [pending EXCEPT ![w].pc = "applied",
                                  ![w].value = lastCall'.value]
    /\ UNCHANGED <<harnessVars, runnerVars>>

\* The worker of a Commit or Rollback looks the transaction up and closes
\* it: one step on the table.
ApplyTerminate(w) ==
    /\ pending[w].pc = "called"
    /\ pending[w].op \in {"Commit", "Rollback"}
    /\ TerminateOnTable(pending[w].op, w, pending[w].tx)
    /\ pending' = [pending EXCEPT ![w].pc = "applied"]
    /\ UNCHANGED <<harnessVars, runnerVars>>

\* The response leaves the server.
Return(w) ==
    /\ pending[w].pc = "applied"
    /\ pending' = [pending EXCEPT ![w] = NoPending]
    /\ UNCHANGED <<txVars, harnessVars, runnerVars>>

NextConc ==
    \/ \E w \in SessionIds, op \in {"Begin", "Commit", "Rollback"}, t \in 0..MaxTx :
           Invoke(w, op, t)
    \/ \E w \in SessionIds : ApplyBegin(w)
    \/ \E w \in SessionIds : ApplyTerminate(w)
    \/ \E w \in SessionIds : Return(w)

\* --------------------------------------------------------- the test runner
\* test.go: main runs every test of the list in a goroutine of its own (the
\* test loop), each try of a test under a watchdog goroutine (Test.run),
\* while main itself waits for a signal or for the loop to end.
MaxTests == 1     \* tests in the list
MaxRetry == 2     \* largest value of the -retry flag

TestIds == 1..MaxTests
Tries == TestIds \X (1..MaxRetry)

\* Nothing of the runner has started.
NoRunner ==
    /\ numTests = 0 /\ retry = 0
    /\ mainAt = "off" /\ loopAt = "off"
    /\ testIdx = 1 /\ try = 1
    /\ nPassed = 0 /\ nFlaky = 0 /\ nFailed = 0
    /\ stop = FALSE /\ done = FALSE
    /\ exitStatus = -1
    /\ cmd = [i \in TestIds |-> 0]
    /\ proc = [k \in Tries |-> "none"]
    /\ runErr = "none"
    /\ runDone = {}
    /\ timer = [k \in Tries |-> "none"]
    /\ watchdog = [k \in Tries |-> "none"]
    /\ term = [k \in Tries |-> {}]
    /\ outcomes = [i \in TestIds |-> <<>>]
    /\ tally = [i \in TestIds |-> <<>>]
    /\ atSignal = {}

\* main up to the start of the test loop: the flags are parsed, the list of
\* tests is built, the stats are zero, the channels are made and the loop
\* goroutine is started.
InitRunner ==
    /\ numTests \in 0..MaxTests /\ retry \in 0..MaxRetry
    /\ mainAt = "select" /\ loopAt = "check"
    /\ testIdx = 1 /\ try = 1
    /\ nPassed = 0 /\ nFlaky = 0 /\ nFailed = 0
    /\ stop = FALSE /\ done = FALSE
    /\ exitStatus = -1
    /\ cmd = [i \in TestIds |-> 0]
    /\ proc = [k \in Tries |-> "none"]
    /\ runErr = "none"
    /\ runDone = {}
    /\ timer = [k \in Tries |-> "none"]
    /\ watchdog = [k \in Tries |-> "none"]
    /\ term = [k \in Tries |-> {}]
    /\ outcomes = [i \in TestIds |-> <<>>]
    /\ tally = [i \in TestIds |-> <<>>]
    /\ atSignal = {}

InitSide == InitConc /\ NoRunner

runnerRest == <<txVars, harnessVars, concVars>>

\* The try the loop has in hand.
Current == <<testIdx, try>>

\* The select of the loop finds stop closed: "cancelled", and the deferred
\* signal.Stop and close(done) run.
LoopCancelled ==
    /\ loopAt = "check" /\ testIdx <= numTests
    /\ stop
    /\ loopAt' = "done"
    /\ done' = TRUE
    /\ UNCHANGED <<numTests, retry, mainAt, testIdx, try, nPassed, nFlaky, nFailed,
                   stop, exitStatus, cmd, proc, runErr, runDone, timer,
                   watchdog, term, outcomes, tally,
                   atSignal>>
    /\ UNCHANGED runnerRest

\* try > *retryMax: every try failed; the test is counted and the loop goes
\* to the next test.
RetryLimit ==
    /\ loopAt = "check" /\ testIdx <= numTests
    /\ ~stop
    /\ try > retry
    /\ nFailed' = nFailed + 1
    /\ tally' = [tally EXCEPT ![testIdx] = Append(@, "failed")]
    /\ testIdx' = testIdx + 1
    /\ try' = 1
    /\ UNCHANGED <<numTests, retry, mainAt, loopAt, nPassed, nFlaky, stop, done,
                   exitStatus, cmd, proc, runErr, runDone, timer, watchdog,
                   term, outcomes,
                   atSignal>>
    /\ UNCHANGED runnerRest

\* The loop enters test.run: t.cmd is set, done is made, the timer is
\* started and so is the watchdog.
StartTry ==
    /\ loopAt = "check" /\ testIdx <= numTests
    /\ ~stop
    /\ try <= retry
    /\ loopAt' = "run"
    /\ cmd' = [cmd EXCEPT ![testIdx] = try]
    /\ timer' = [timer EXCEPT ![Current] = "armed"]
    /\ watchdog' = [watchdog EXCEPT ![Current] = "waiting"]
    /\ runErr' = "none"
    /\ UNCHANGED <<numTests, retry, mainAt, testIdx, try, nPassed, nFlaky, nFailed,
                   stop, done, exitStatus, proc, runDone, term, outcomes,
                   tally,
                   atSignal>>
    /\ UNCHANGED runnerRest

\* CombinedOutput starts the process.
ProcessStarts ==
    /\ loopAt = "run" /\ runErr = "none"
    /\ proc[Current] = "none"
    /\ proc' = [proc EXCEPT ![Current] = "running"]
    /\ UNCHANGED <<numTests, retry, mainAt, loopAt, testIdx, try, nPassed, nFlaky,
                   nFailed, stop, done, exitStatus, cmd, runErr, runDone,
                   timer, watchdog, term, outcomes, tally,
                   atSignal>>
    /\ UNCHANGED runnerRest

\* The process ends and CombinedOutput has waited for it.  A process that
\* was sent SIGTERM may still end with status 0.
RunCompletes(err) ==
    /\ loopAt = "run" /\ runErr = "none"
    /\ proc[Current] = "running"
    /\ proc' = [proc EXCEPT ![Current] = "exited"]
    /\ runErr' = err
    /\ UNCHANGED <<numTests, retry, mainAt, loopAt, testIdx, try, nPassed, nFlaky,
                   nFailed, stop, done, exitStatus, cmd, runDone, timer,
                   watchdog, term, outcomes, tally,
                   atSignal>>
    /\ UNCHANGED runnerRest

\* A Test.run without its deferred close(done).
RunReturnsLeavesDoneOpen ==
    /\ loopAt = "run" /\ runErr # "none"
    /\ timer' = [timer EXCEPT ![Current] =
                     IF @ = "armed" THEN "stopped" ELSE @]
    /\ outcomes' = [outcomes EXCEPT ![testIdx] = Append(@, runErr)]
    /\ loopAt' = "check"
    /\ runErr' = "none"
    /\ IF runErr = "err"
       THEN /\ try' = try + 1
            /\ UNCHANGED <<testIdx, nPassed, nFlaky, tally>>
       ELSE /\ IF try = 1
               THEN /\ nPassed' = nPassed + 1
                    /\ tally' = [tally EXCEPT ![testIdx] = Append(@, "passed")]
                    /\ UNCHANGED nFlaky
               ELSE /\ nFlaky' = nFlaky + 1
                    /\ tally' = [tally EXCEPT ![testIdx] = Append(@, "flaky")]
                    /\ UNCHANGED nPassed
            /\ testIdx' = testIdx + 1
            /\ try' = 1
    /\ UNCHANGED <<numTests, retry, mainAt, nFailed, stop, done, exitStatus, cmd,
                   proc, runDone, watchdog, term, atSignal>>
    /\ UNCHANGED runnerRest

\* A loop that counts every failed try as a failed test.
RunReturnsCountsFailures ==
    /\ loopAt = "run" /\ runErr # "none"
    /\ runDone' = runDone \cup {Current}
    /\ timer' = [timer EXCEPT ![Current] =
                     IF @ = "armed" THEN "stopped" ELSE @]
    /\ outcomes' = [outcomes EXCEPT ![testIdx] = Append(@, runErr)]
    /\ loopAt' = "check"
    /\ runErr' = "none"
    /\ IF runErr = "err"
       THEN /\ try' = try + 1
            /\ nFailed' = nFailed + 1
            /\ tally' = [tally EXCEPT ![testIdx] = Append(@, "failed")]
            /\ UNCHANGED <<testIdx, nPassed, nFlaky>>
       ELSE /\ IF try = 1
               THEN /\ nPassed' = nPassed + 1
                    /\ tally' = [tally EXCEPT ![testIdx] = Append(@, "passed")]
                    /\ UNCHANGED nFlaky
               ELSE /\ nFlaky' = nFlaky + 1
                    /\ tally' = [tally EXCEPT ![testIdx] = Append(@, "flaky")]
                    /\ UNCHANGED nPassed
            /\ testIdx' = testIdx + 1
            /\ try' = 1
            /\ UNCHANGED nFailed
    /\ UNCHANGED <<numTests, retry, mainAt, stop, done, exitStatus, cmd,
                   proc, watchdog, term,
                   atSignal>>
    /\ UNCHANGED runnerRest

\* test.run returns (the deferred close(done) and timer.Stop()) and the loop
\* counts the try: a failed try goes round again, a passing one is counted
\* nPassed or nFlaky and ends the test.
RunReturns ==
    /\ loopAt = "run" /\ runErr # "none"
    /\ runDone' = runDone \cup {Current}
    /\ timer' = [timer EXCEPT ![Current] =
                     IF @ = "armed" THEN "stopped" ELSE @]
    /\ outcomes' = [outcomes EXCEPT ![testIdx] = Append(@, runErr)]
    /\ loopAt' = "check"
    /\ runErr' = "none"
    /\ IF runErr = "err"
       THEN /\ try' = try + 1
            /\ UNCHANGED <<testIdx, nPassed, nFlaky, tally>>
       ELSE /\ IF try = 1
               THEN /\ nPassed' = nPassed + 1
                    /\ tally' = [tally EXCEPT ![testIdx] = Append(@, "passed")]
                    /\ UNCHANGED nFlaky
               ELSE /\ nFlaky' = nFlaky + 1
                    /\ tally' = [tally EXCEPT ![testIdx] = Append(@, "flaky")]
                    /\ UNCHANGED nPassed
            /\ testIdx' = testIdx + 1
            /\ try' = 1
    /\ UNCHANGED <<numTests, retry, mainAt, nFailed, stop, done, exitStatus, cmd,
                   proc, watchdog, term,
                   atSignal>>
    /\ UNCHANGED runnerRest

\* The range over tests is over: the deferred signal.Stop and close(done).
LoopEnds ==
    /\ loopAt = "check" /\ testIdx > numTests
    /\ loopAt' = "done"
    /\ done' = TRUE
    /\ UNCHANGED <<numTests, retry, mainAt, testIdx, try, nPassed, nFlaky, nFailed,
                   stop, exitStatus, cmd, proc, runErr, runDone, timer,
                   watchdog, term, outcomes, tally,
                   atSignal>>
    /\ UNCHANGED runnerRest

\* Time passes: the timer of a try sends on timer.C.
TimerFires(k) ==
    /\ timer[k] = "armed"
    /\ exitStatus = -1
    /\ timer' = [timer EXCEPT ![k] = "fired"]
    /\ UNCHANGED <<numTests, retry, mainAt, loopAt, testIdx, try, nPassed, nFlaky,
                   nFailed, stop, done, exitStatus, cmd, proc, runErr,
                   runDone, watchdog, term, outcomes, tally,
                   atSignal>>
    /\ UNCHANGED runnerRest

\* The watchdog of a try takes case <-done.
WatchdogDone(k) ==
    /\ watchdog[k] = "waiting"
    /\ exitStatus = -1
    /\ k \in runDone
    /\ watchdog' = [watchdog EXCEPT ![k] = "exited"]
    /\ timer' = [timer EXCEPT ![k] = "none"]
    /\ UNCHANGED <<numTests, retry, mainAt, loopAt, testIdx, try, nPassed, nFlaky,
                   nFailed, stop, done, exitStatus, cmd, proc, runErr,
                   runDone, term, outcomes, tally,
                   atSignal>>
    /\ UNCHANGED runnerRest

\* The watchdog of a try takes case <-timer.C: "timeout exceeded", and
\* SIGTERM for the process if there is one.  The signal reaches a process
\* that has not been waited for.
WatchdogTimeout(k) ==
    /\ watchdog[k] = "waiting"
    /\ exitStatus = -1
    /\ timer[k] = "fired"
    /\ timer' = [timer EXCEPT ![k] = "none"]
    /\ watchdog' = [watchdog EXCEPT ![k] = "exited"]
    /\ term' = [term EXCEPT ![k] =
                    IF proc[k] = "running" THEN @ \cup {"watchdog"} ELSE @]
    /\ UNCHANGED <<numTests, retry, mainAt, loopAt, testIdx, try, nPassed, nFlaky,
                   nFailed, stop, done, exitStatus, cmd, proc, runErr,
                   runDone, outcomes, tally,
                   atSignal>>
    /\ UNCHANGED runnerRest

\* SIGINT or SIGTERM arrives while main is in its select and the loop has
\* not called signal.Stop: main closes stop and waits for done.
ReceiveSignal ==
    /\ mainAt = "select"
    /\ ~done
    /\ stop' = TRUE
    /\ mainAt' = "waitDone"
    /\ atSignal' = {k \in Tries : proc[k] = "running"}
    /\ UNCHANGED <<numTests, retry, loopAt, testIdx, try, nPassed, nFlaky, nFailed,
                   done, exitStatus, cmd, proc, runErr, runDone, timer,
                   watchdog, term, outcomes, tally>>
    /\ UNCHANGED runnerRest

\* Test.stop on every test: SIGTERM for the process of t.cmd if there is
\* one.
StopAll ==
    [k \in Tries |->
        IF k[1] <= numTests /\ cmd[k[1]] = k[2] /\ proc[k] = "running"
        THEN term[k] \cup {"stop"} ELSE term[k]]

\* The stats and the exit status of lines 349-356.
Skipped == numTests - nPassed - nFlaky - nFailed

\* An exit status that looks at the failed tests only.
ExitStatusIgnoresSkipped == IF nFailed > 0 THEN 1 ELSE 0

ExitStatus == IF nFailed > 0 \/ Skipped > 0 THEN 1 ELSE 0

\* The process ends, and its goroutines with it.
Exited == [k \in Tries |-> IF watchdog[k] = "waiting" THEN "exited" ELSE watchdog[k]]

\* main after the signal: done is closed, every test is stopped, the stats
\* are printed and the process exits.
MainStopped ==
    /\ mainAt = "waitDone"
    /\ done
    /\ term' = StopAll
    /\ mainAt' = "exited"
    /\ exitStatus' = ExitStatus
    /\ watchdog' = Exited
    /\ UNCHANGED <<numTests, retry, loopAt, testIdx, try, nPassed, nFlaky, nFailed,
                   stop, done, cmd, proc, runErr, runDone, timer, outcomes,
                   tally,
                   atSignal>>
    /\ UNCHANGED runnerRest

\* main takes case <-done of its select: the stats are printed and the
\* process exits.
MainDone ==
    /\ mainAt = "select"
    /\ done
    /\ mainAt' = "exited"
    /\ exitStatus' = ExitStatus
    /\ watchdog' = Exited
    /\ UNCHANGED <<numTests, retry, loopAt, testIdx, try, nPassed, nFlaky, nFailed,
                   stop, done, cmd, proc, runErr, runDone, timer, term,
                   outcomes, tally,
                   atSignal>>
    /\ UNCHANGED runnerRest

NextRunner ==
    \/ LoopCancelled \/ RetryLimit \/ StartTry \/ ProcessStarts
    \/ \E err \in {"nil", "err"} : RunCompletes(err)
    \/ RunReturns \/ LoopEnds
    \/ \E k \in Tries : TimerFires(k)
    \/ \E k \in Tries : WatchdogDone(k)
    \/ \E k \in Tries : WatchdogTimeout(k)
    \/ ReceiveSignal \/ MainStopped \/ MainDone


vars == <<txVars, fakeVars, streamVars, execVars, sideVars>>

Init == InitTx /\ InitFake /\ InitStream /\ InitExec /\ InitSide

Next ==
    \/ TestSuite
    \/ CreateFakeServer
    \/ testBegin \/ testBegin2 \/ testCommit \/ testRollback \/ testExecute
    \/ testExecuteBatch \/ testSplitQuery
    \/ setHasError
    \/ testBeginError \/ testBegin2Error \/ testCommitError \/ testRollbackError
    \/ testExecuteError \/ testExecuteBatchError \/ testSplitQueryError
    \/ clearHasError
    \/ setPanics
    \/ testBeginPanics \/ testBegin2Panics \/ testCommitPanics
    \/ testRollbackPanics \/ testExecutePanics \/ testExecuteBatchPanics
    \/ testSplitQueryPanics
    \/ clearPanics
    \/ StreamCall \/ StreamCallReturn \/ StreamRecv \/ StreamRecvClosed
    \/ ErrFunc \/ CloseWait \/ MakeWait
    \/ StreamExecuteSend1 \/ StreamExecuteBranch \/ StreamExecutePanicLate
    \/ StreamExecuteError \/ StreamExecuteSend2 \/ StreamExecuteReturn

Spec == Init /\ [][Next]_vars

\* The manager with one call at a time.
NextTx ==
    \/ GetSessionId
    \/ \E s \in SessionIds : Begin(s)
    \/ \E s \in SessionIds, t \in TxIds : BeginNested(s, t)
    \/ \E s \in SessionIds, t \in 0..MaxTx : Commit(s, t)
    \/ \E s \in SessionIds, t \in 0..MaxTx : Rollback(s, t)
    \/ \E s \in SessionIds, t \in 0..MaxTx : Execute(s, t)

\* The manager is checked with the harness at rest.
InitAtRest == Init /\ transport = [errInCall |-> FALSE, keepsNil |-> FALSE, prefix |-> FALSE]

SpecTx == InitAtRest /\ [][NextTx]_vars

\* The manager under concurrent calls, from the state in which every session
\* has been opened.
InitConcurrent ==
    /\ InitFake /\ InitStream /\ InitExec /\ InitSide
    /\ transport = [errInCall |-> FALSE, keepsNil |-> FALSE, prefix |-> FALSE]
    /\ sessions = SessionIds
    /\ nextTxId = 1
    /\ txState = [t \in TxIds |-> "NONE"]
    /\ txSession = [t \in TxIds |-> 0]
    /\ txUsed = [t \in TxIds |-> FALSE]
    /\ begun = <<>>
    /\ lastCall = Call("GetSessionId", MaxSessions, 0, "OK", MaxSessions)

SpecConc == InitConcurrent /\ [][NextConc]_vars

\* The test runner, from the start of its test loop, with the server at
\* rest.
InitMain ==
    /\ InitTx /\ InitFake /\ InitStream /\ InitExec /\ InitConc /\ InitRunner
    /\ transport = [errInCall |-> FALSE, keepsNil |-> FALSE, prefix |-> FALSE]

SpecRunner == InitMain /\ [][NextRunner]_vars

\* The runner with time passing and goroutines scheduled: a timer that stays
\* started fires, and while watchdogs have a case of their select ready one
\* of them is run.
WatchdogStep == \E k \in Tries : WatchdogDone(k) \/ WatchdogTimeout(k)

SpecRunnerLive ==
    /\ SpecRunner
    /\ WF_vars(\E k \in Tries : TimerFires(k))
    /\ WF_vars(WatchdogStep)

\* The Query Executor and the Query Splitter are checked from the state the
\* manager is in after GetSessionId and Begin: session 1 holds transaction 1
\* open; Commit closes it.
InitExecutor ==
    /\ InitFake /\ InitStream /\ InitExec /\ InitSide
    /\ transport = [errInCall |-> FALSE, keepsNil |-> FALSE, prefix |-> FALSE]
    /\ sessions = {1}
    /\ nextTxId = 2
    /\ txState = [t \in TxIds |-> IF t = 1 THEN "OPEN" ELSE "NONE"]
    /\ txSession = [t \in TxIds |-> IF t = 1 THEN 1 ELSE 0]
    /\ txUsed = [t \in TxIds |-> FALSE]
    /\ begun = <<1>>
    /\ lastCall = Call("Begin", 1, 0, "OK", 1)

NextExec ==
    \/ \E s \in SessionIds, t \in 0..MaxTx : Commit(s, t)
    \/ \E s \in SessionIds, t \in 0..MaxTx : ExecuteBatch(s, t)
    \/ SplitQuery

SpecExec == InitExecutor /\ [][NextExec]_vars

\* The Streaming Executor with a consumer that may abandon the stream.
SpecStream == InitAtRest /\ [][NextStream]_vars

\* The producer is a goroutine of its own: a step it can take is taken.
ProducerStep == Produce \/ SendFails \/ EngineFails \/ ProducerDone

SpecStreamLive == SpecStream /\ WF_vars(ProducerStep)

\* ================================================================= claims

WireSeq(tr, chunks) == [i \in 1..Len(chunks) |-> WireResult(tr, chunks[i])]

EngineChunks == <<streamExecuteQueryResult1, streamExecuteQueryResult2>>

TerminalErrorIffIncomplete ==
    termRead =>
        ((termErr = NoErr) <=>
            (/\ sent = EngineChunks
             /\ recv = WireSeq(transport, EngineChunks)
             /\ ~srvPanicked
             /\ srvPc = "done"))

\* A stream cut short after the fields chunk has been reported as failed.
CutShortReported ==
    /\ termRead
    /\ sawClose
    /\ termErr # NoErr
    /\ Len(recv) = 1

\* ---- C7 (Spec): when StreamExecute (or StreamExecute2) returns an error
\* after k >= 1 chunks were sent, no sent chunk is lost, the consumer has
\* exactly those k chunks when it sees the close, and the terminal-error
\* accessor then reports an error containing "error: generic error".
ErrorAfterChunks == srvPc = "done" /\ ~srvPanicked /\ srvErr # NoErr /\ Len(sent) >= 1

ErrorAfterChunksDelivered ==
    ErrorAfterChunks =>
        /\ recv \o WireSeq(transport, stream) = WireSeq(transport, sent)
        /\ sawClose => recv = WireSeq(transport, sent)
        /\ termRead => (sawClose /\ Contains(termErr, expectedErrMatch))
        /\ ~aborted

\* testStreamExecute2Error has read the error after the one chunk sent.
ErrorAfterOneChunkSeen ==
    /\ ErrorAfterChunks
    /\ suiteIdx \in 1..Len(SuiteSteps)
    /\ SuiteSteps[suiteIdx] = "testStreamExecute2Error"
    /\ termRead
    /\ Len(sent) = 1
    /\ Len(recv) = 1

\* ---- C8 (Spec): the stream of a StreamExecute call is closed exactly once:
\* never twice, always by the time the method has ended, and after the close
\* the producer sends nothing and the consumer that saw it receives nothing,
\* however the stream ended.
ClosedExactlyOnce ==
    [][/\ closeCount' <= 1
       /\ streamClosed' <=> (closeCount' = 1)
       /\ srvPc' = "done" => streamClosed'
       /\ sawClose' => (streamClosed' /\ stream' = <<>>)
       /\ (streamClosed /\ streamClosed') => sent' = sent
       /\ (sawClose /\ sawClose') => recv' = recv]_vars

\* The consumer has seen the close of a stream that a late panic ended.
CloseSeenAfterPanic ==
    /\ sawClose
    /\ srvPanicked
    /\ closeCount = 1
    /\ Len(recv) = 1

\* ---- C9 (Spec): a panic raised inside any call (Begin, Begin2, Commit,
\* Rollback, Execute, ExecuteBatch, SplitQuery, StreamExecute,
\* StreamExecute2) reaches the caller as an error that carries the mark of a
\* caught fault and not that of an error the engine reported, and an error
\* the engine reported never carries the mark of a caught fault.  The call
\* is never reported as a success: a unary call fails, and a streaming call
\* either fails itself or hands out a stream whose terminal-error accessor
\* returns the caught fault.
ErrKind(err) ==
    IF err = NoErr THEN "none"
    ELSE IF Contains(err, caughtMatch) /\ ~Contains(err, expectedErrMatch)
    THEN "Internal"
    ELSE IF Contains(err, expectedErrMatch) /\ ~Contains(err, caughtMatch)
    THEN "ExecutionFailed"
    ELSE "other"

CannedReply(method) ==
    CASE method = "Begin" -> beginTransactionID
      [] method = "Commit" -> 0
      [] method = "Rollback" -> 0
      [] method = "Execute" -> executeQueryResult
      [] method = "ExecuteBatch" -> executeBatchQueryResultList
      [] method = "SplitQuery" -> splitQueryQuerySplitList

AfterPlainTest ==
    /\ suiteIdx \in 2..10
    /\ SuiteSteps[suiteIdx - 1] \notin StreamTests

ServesAfterFaults ==
    faults > 0 =>
        /\ ~aborted
        /\ ~failed
        /\ ~doubleClose
        /\ AfterPlainTest =>
               /\ lastRpc.ok
               /\ ~lastRpc.panicked
               /\ lastRpc.reply = CannedReply(lastRpc.method)
        /\ (suiteIdx \in 2..10 /\ SuiteSteps[suiteIdx - 1] \in StreamTests /\ cliPc = 1) =>
               /\ termErr = NoErr
               /\ recv = WireSeq(transport, EngineChunks)
        /\ suiteIdx # 0 => ENABLED Next

\* In a second run of the suite, after the faults of the first, testExecute
\* has returned the result of the query.
ServedAfterFaults ==
    /\ faults > 0
    /\ suiteIdx = 6
    /\ lastRpc.method = "Execute"
    /\ lastRpc.ok
    /\ lastRpc.reply = executeQueryResult

\* ---- C11 (Spec): when StreamExecute (or StreamExecute2) panics before it
\* has sent a chunk, no chunk is sent and the consumer receives none; once the
\* test is past the call, the caught fault has been reported either as the
\* error of the call itself or, when the call handed out a stream, by the
\* stream closing empty and the terminal-error accessor returning the caught
\* fault.
EarlyFault == srvPanicked /\ fake.streamExecutePanicsEarly

PastEarlyCall ==
    /\ suiteIdx \in 1..Len(SuiteSteps)
    /\ SuiteSteps[suiteIdx] \in {"testStreamExecutePanics", "testStreamExecute2Panics"}
    /\ cliPc = 5

EarlyFaultYieldsNothing ==
    EarlyFault =>
        /\ sent = <<>>
        /\ stream = <<>>
        /\ recv = <<>>
        /\ ~aborted
        /\ callErr # NoErr => (Contains(callErr, caughtMatch) /\ ~termRead /\ ~sawClose)
        /\ termRead => (sawClose /\ callErr = NoErr /\ Contains(termErr, caughtMatch))
        /\ PastEarlyCall => (callErr # NoErr \/ termRead)

\* The early panic of StreamExecute2 has been read from the terminal-error
\* accessor of a stream that closed empty.
EarlyFaultSeenByAccessor ==
    /\ EarlyFault
    /\ PastEarlyCall
    /\ SuiteSteps[suiteIdx] = "testStreamExecute2Panics"
    /\ callErr = NoErr
    /\ sawClose
    /\ termRead

\* ---- C12 (Spec): when StreamExecute panics or returns an error after it
\* has sent a chunk, the chunks sent have been received and the call has
\* returned without error by then; from then on the consumer keeps what it
\* received and receives nothing more, the call's own error stays nil, and
\* the error is reported by the terminal-error accessor alone, which the
\* consumer reads after it has seen the stream closed.
LateFault == srvPc = "done" /\ srvErr # NoErr /\ sent # <<>>

LateFaultOnlyInAccessor ==
    [][/\ (~LateFault /\ LateFault') =>
              /\ At("closed")
              /\ callErr = NoErr
              /\ Len(recv) >= 1
              /\ recv = WireSeq(transport, sent)
              /\ recv' = recv
              /\ stream' = <<>>
              /\ ~termRead'
       /\ (LateFault /\ LateFault') => (recv' = recv /\ sent' = sent)
       /\ LateFault' =>
              /\ callErr' = NoErr
              /\ ~aborted'
              /\ termRead' => (sawClose' /\ termErr' = WireErr(transport', srvErr'))]_vars

\* On a transport that reports early failures by the call itself, the late
\* panic of StreamExecute has been read from the terminal-error accessor
\* after the fields chunk and the close.
LateFaultSeenByAccessor ==
    /\ LateFault
    /\ srvPanicked
    /\ transport.errInCall
    /\ callErr = NoErr
    /\ Len(recv) = 1
    /\ sawClose
    /\ termRead
    /\ termErr # NoErr

\* ---- C13 (Spec): the two generations of Begin, Commit, Rollback and
\* StreamExecute are equivalent.  Whenever a test calls one generation of
\* Begin, Commit or Rollback, the server state is left as it was and the
\* caller gets the success value and the error message that either
\* generation returns from that server state under either setting of
\* RPCErrorOnlyInReply; where two of them differ, they differ in the channel
\* that carried the error.  A streaming test of either generation ends with
\* the same chunks, the same call result and the same terminal error.
TxTests ==
    {"testBegin", "testBegin2", "testCommit", "testRollback",
     "testBeginError", "testBegin2Error", "testCommitError", "testRollbackError",
     "testBeginPanics", "testBegin2Panics", "testCommitPanics",
     "testRollbackPanics"}

\* What the fake does for the call the tests make of a method.
Handled(method) ==
    CASE method = "Begin" -> FakeBegin(fake, Session(connSession, 0))
      [] method = "Commit" -> FakeCommit(fake, Session(connSession, commitTransactionID))
      [] method = "Rollback" ->
             FakeRollback(fake, Session(connSession, rollbackTransactionID))

SameOutcome(a, b) ==
    /\ a.ok = b.ok
    /\ a.reply = b.reply
    /\ a.err = b.err
    /\ a.panicked = b.panicked
    /\ a.channel # b.channel => (~a.ok /\ a.channel # "none" /\ b.channel # "none")

\* What a streaming test of either generation has observed at its end.
StreamObserved(step) ==
    IF step \in {"testStreamExecute", "testStreamExecute2"}
    THEN [callErr |-> NoErr, recv |-> WireSeq(transport, EngineChunks),
          termErr |-> NoErr]
    ELSE IF step \in {"testStreamExecuteError", "testStreamExecute2Error"}
    THEN [callErr |-> NoErr,
          recv |-> WireSeq(transport, <<streamExecuteQueryResult1>>),
          termErr |-> WireErr(transport, testTabletError)]
    ELSE [callErr |-> NoErr,
          recv |-> WireSeq(transport, <<streamExecuteQueryResult1>>),
          termErr |-> WireErr(transport, HandlePanic(NoErr, TestPanicLate))]

ErrorPrefix == <<"error: ">>

UnaryTests ==
    {SuiteSteps[i] : i \in 1..Len(SuiteSteps)}
        \ (StreamTests \cup {"setHasError", "clearHasError", "setPanics",
                              "clearPanics"})

\* The running test makes its call in this step.
UnaryCallStep ==
    /\ suiteIdx \in 1..Len(SuiteSteps)
    /\ SuiteSteps[suiteIdx] \in UnaryTests
    /\ (suiteIdx' # suiteIdx \/ aborted' # aborted)

EveryErrorCarriesPrefix ==
    [][/\ (UnaryCallStep /\ (fake.hasError \/ fake.panics)) =>
              (~lastRpc'.ok /\ Contains(lastRpc'.err, ErrorPrefix))
       /\ (termRead' /\ srvErr' # NoErr) =>
              (termErr' # NoErr /\ Contains(termErr', ErrorPrefix))]_vars

\* ---- C14 (Spec), amended: every error a method returns, as opposed to a
\* fault caught inside it, reaches the caller as a non-nil error whose
\* message contains "error: generic error", for Begin, Begin2, Commit,
\* Rollback, Execute, ExecuteBatch, SplitQuery and the streaming terminal
\* accessor alike; a caught fault reaches the caller as a non-nil error that
\* contains "caught test panic" and no "error: ".
ReturnedErrorsCarryPrefix ==
    [][/\ (UnaryCallStep /\ fake.hasError) =>
              (~lastRpc'.ok /\ Contains(lastRpc'.err, expectedErrMatch))
       /\ (UnaryCallStep /\ ~fake.hasError /\ fake.panics) =>
              /\ ~lastRpc'.ok
              /\ Contains(lastRpc'.err, caughtMatch)
              /\ ~Contains(lastRpc'.err, ErrorPrefix)
       /\ (UnaryCallStep /\ ~fake.hasError /\ ~fake.panics) => lastRpc'.ok
       /\ (termRead' /\ srvErr' # NoErr /\ ~srvPanicked') =>
              (termErr' # NoErr /\ Contains(termErr', expectedErrMatch))
       /\ (termRead' /\ srvPanicked') =>
              /\ termErr' # NoErr
              /\ Contains(termErr', caughtMatch)
              /\ ~Contains(termErr', ErrorPrefix)
       /\ (termRead' /\ srvErr' = NoErr) => termErr' = NoErr]_vars

\* The last test of the error phase has got "error: generic error" from
\* SplitQuery, after the terminal accessor of StreamExecute2 returned it.
GenericErrorSeenEverywhere ==
    /\ suiteIdx \in 1..Len(SuiteSteps)
    /\ SuiteSteps[suiteIdx] = "clearHasError"
    /\ lastRpc.method = "SplitQuery"
    /\ ~lastRpc.ok
    /\ Contains(lastRpc.err, expectedErrMatch)
    /\ termRead
    /\ Contains(termErr, expectedErrMatch)

ExecuteSqls == {executeQuery, "otherQuery"}
ExecuteBinds == {executeBindVars, [bind1 |-> 0]}
ExecuteTxIds == {0, executeTransactionID, beginTransactionID}

Keys == 0..(KeySpace - 1)

Applies(w) == pending[w].pc = "called" /\ pending'[w].pc = "applied"

Waits == {"errorWait", "panicWait"}

WaitsUntilFirstChunkReceived ==
    [][/\ (srvPc' \in Waits /\ srvPc \notin Waits) =>
              /\ sent' = <<streamExecuteQueryResult1>>
              /\ srvWaitOn' = IF srvPc' = "errorWait" THEN errorWait ELSE panicWait
       /\ chanClosed' # chanClosed =>
              /\ chanClosed' \ chanClosed \subseteq {errorWait, panicWait}
              /\ Len(recv) >= 1
              /\ recv[1] = WireResult(transport, streamExecuteQueryResult1)
       /\ (srvPc \in Waits /\ srvPc' \notin Waits) =>
              /\ srvPc' = "done"
              /\ srvErr' # NoErr
              /\ srvWaitOn \in chanClosed
              /\ Len(recv) >= 1]_vars

\* The method has returned its error after the wait on errorWait, and the
\* test function, which has the fields chunk, has not yet seen the close.
ReleasedAfterFirstChunk ==
    /\ srvPc = "done"
    /\ ~srvPanicked
    /\ srvErr # NoErr
    /\ srvWaitOn = errorWait
    /\ errorWait \in chanClosed
    /\ Len(recv) = 1
    /\ ~sawClose

\* ---- C26 (Spec): over CreateFakeServer and every run of TestSuite no
\* channel is closed twice, errorWait and panicWait are two channels made
\* before any channel still to be made, and errorWait (panicWait) is closed
\* only while a streaming error (panic) test is between its close and the
\* make at its end: when such a test has returned, or stopped at a t.Fatalf,
\* the global holds an open channel, and the method of the next streaming
\* test comes to wait on a channel that only its own test function closes.
ErrorTests == {"testStreamExecuteError", "testStreamExecute2Error"}
PanicTests == {"testStreamExecutePanics", "testStreamExecute2Panics"}

\* The running test is one of tests and is past step k of its script.
PastStep(tests, k) ==
    /\ suiteIdx \in 1..Len(SuiteSteps)
    /\ SuiteSteps[suiteIdx] \in tests
    /\ ~aborted
    /\ cliPc > k

WaitChannelsFresh ==
    /\ ~doubleClose
    /\ errorWait # panicWait
    /\ \A c \in chanClosed \cup {errorWait, panicWait} : c < nextChan
    /\ errorWait \in chanClosed => PastStep(ErrorTests, 4)
    /\ panicWait \in chanClosed => PastStep(PanicTests, 8)
    /\ srvPc \in Waits => srvWaitOn = (IF srvPc = "errorWait" THEN errorWait
                                       ELSE panicWait)

\* After testStreamExecuteError has returned, the method of
\* testStreamExecute2Error waits on the channel made at the end of that
\* test, which nobody has closed.
NextServerWaitsAgain ==
    /\ suiteIdx \in 1..Len(SuiteSteps)
    /\ SuiteSteps[suiteIdx] = "testStreamExecute2Error"
    /\ srvPc = "errorWait"
    /\ srvWaitOn = errorWait
    /\ errorWait \notin chanClosed
    /\ chanClosed # {}

\* ------------------------------------------------------------------- C27
\* The tries of test i begun so far, the one in hand included.
Tried(i) ==
    Len(outcomes[i]) + (IF loopAt = "run" /\ testIdx = i THEN 1 ELSE 0)

\* Every one of the retryMax tries of test i has failed.
FailedEveryTry(i) ==
    /\ retry > 0
    /\ Len(outcomes[i]) = retry
    /\ \A j \in 1..Len(outcomes[i]) : outcomes[i][j] = "err"

\* What C27 says of test i, the test being due its count of failed once
\* `settled` holds.
RetryRule(i, settled) ==
    /\ Tried(i) <= retry
    /\ \A j \in 1..Len(outcomes[i]) :
           outcomes[i][j] = "nil" => j = Tried(i)
    /\ Len(tally[i]) <= 1
    /\ outcomes[i] = <<"nil">> => tally[i] = <<"passed">>
    /\ (Len(outcomes[i]) > 1 /\ outcomes[i][Len(outcomes[i])] = "nil")
           => tally[i] = <<"flaky">>
    /\ (FailedEveryTry(i) /\ settled) => tally[i] = <<"failed">>
    /\ tally[i] = <<"passed">> => outcomes[i] = <<"nil">>
    /\ tally[i] = <<"flaky">> =>
           Len(outcomes[i]) > 1 /\ outcomes[i][Len(outcomes[i])] = "nil"
    /\ tally[i] = <<"failed">> =>
           Len(outcomes[i]) = retry
           /\ \A j \in 1..Len(outcomes[i]) : outcomes[i][j] = "err"

\* C27 as stated: every test is tried at most retryMax times and not again
\* after a passing try; a pass on try 1 counts it passed, a pass on a later
\* try counts it flaky, and when the loop is over a test whose retryMax
\* tries all failed has been counted failed, once.
RetriedAndCounted ==
    \A i \in 1..numTests : RetryRule(i, loopAt = "done")

\* C27: every test is tried at most retryMax times and not again after a
\* passing try; a pass on try 1 counts it passed, a pass on a later try
\* counts it flaky, and once the loop has gone on from a test whose
\* retryMax tries all failed, that test has been counted failed, once.  (A
\* loop cancelled before its retry check leaves the test uncounted.)
RetriedAndCountedUnlessCancelled ==
    \A i \in 1..numTests : RetryRule(i, testIdx > i)

\* The loop has gone on from a test that failed each of two tries, and has
\* counted it failed once.
FailedAfterEveryTry ==
    \E i \in 1..numTests :
        /\ retry = MaxRetry
        /\ FailedEveryTry(i)
        /\ testIdx > i
        /\ tally[i] = <<"failed">>
        /\ nFailed = 1

\* ------------------------------------------------------------------- C28
\* The tests counted in a stat.
Counted(stat) == {i \in 1..numTests : tally[i] = <<stat>>}

\* The tests counted in no stat.
Uncounted == {i \in 1..numTests : tally[i] = <<>>}

\* C28: no test is counted twice and each counter is the number of tests
\* counted in it, so that passed + flaky + failed <= len(tests) and skipped
\* is the number of tests counted nowhere; and once the process has exited
\* its status is 1 if and only if some test was counted failed or was
\* counted nowhere.
EveryTestCountedOnce ==
    /\ \A i \in 1..numTests : Len(tally[i]) <= 1
    /\ nPassed = Cardinality(Counted("passed"))
    /\ nFlaky = Cardinality(Counted("flaky"))
    /\ nFailed = Cardinality(Counted("failed"))
    /\ nPassed + nFlaky + nFailed <= numTests
    /\ Skipped = Cardinality(Uncounted)
    /\ exitStatus # -1 =>
          /\ exitStatus \in {0, 1}
          /\ exitStatus = 1 <=> (Counted("failed") # {} \/ Uncounted # {})

\* The runner has exited with status 1 on a skipped test alone.
ExitedOnSkippedTest ==
    /\ exitStatus = 1
    /\ nFailed = 0
    /\ Uncounted # {}

\* ------------------------------------------------------------------- C29
\* After the signal no try is started.
NoTryAfterSignal ==
    stop => \A k \in Tries : watchdog[k] = "none" => watchdog'[k] = "none"

\* A process that was running when the signal arrived does not end without
\* having been sent SIGTERM.
RunningTestTerminated ==
    \A k \in atSignal :
        (proc[k] = "running" /\ proc'[k] = "exited") => term[k] # {}

\* C29: once the signal has arrived the loop starts no try, and the test
\* that was running when it arrived is sent SIGTERM before its process
\* ends.
SignalStopsAndKills == [][NoTryAfterSignal /\ RunningTestTerminated]_vars

\* The part of C29 that holds: once the signal has arrived the loop starts
\* no try.
SignalStopsLoop == [][NoTryAfterSignal]_vars

\* ------------------------------------------------------------------- C30
\* The watchdog of a try is what a step sends SIGTERM from.
WatchdogSignals(k) == "watchdog" \notin term[k] /\ "watchdog" \in term'[k]

\* The watchdog of a try leaves its select.
WatchdogExits(k) == watchdog[k] = "waiting" /\ watchdog'[k] = "exited"

\* Some watchdog is in its select.
WatchdogWaiting == \E k \in Tries : watchdog[k] = "waiting"

\* C30: the watchdog of a try sends SIGTERM to the process only when the
\* timer has fired and the run has not completed; it leaves its select only
\* with done closed or the timer fired; and every watchdog that waits
\* comes to an end.
WatchdogSignalsOnTimeoutAndEnds ==
    /\ [][\A k \in Tries :
             /\ WatchdogSignals(k) =>
                    timer[k] = "fired" /\ proc[k] = "running" /\ k \notin runDone
             /\ WatchdogExits(k) => (k \in runDone \/ timer[k] = "fired")]_vars
    /\ WatchdogWaiting ~> ~WatchdogWaiting

\* A watchdog has ended after sending SIGTERM to a process that outran the
\* timeout, and another after its run returned in time.
TimedOutAndTerminated ==
    /\ \E k \in Tries : watchdog[k] = "exited" /\ term[k] = {"watchdog"}
    /\ \E k \in Tries :
           watchdog[k] = "exited" /\ term[k] = {} /\ k \in runDone

====
